---- MODULE Spec2Model ----
(***************************************************************************)
(* Model of the SkillsYoga skill editor (SkillEditorDialog) and of the     *)
(* Tauri commands it calls.  Strings that the code inspects character by   *)
(* character (relative paths, raw dialog input) are sequences of           *)
(* one-character strings; file contents are opaque strings.                *)
(***************************************************************************)
EXTENDS Integers, Sequences, FiniteSets, TLC

(***************************************************************************)
(* Bounds of the model.                                                    *)
(***************************************************************************)
MaxLen == 4        \* longest raw dialog input enumerated in SpecInput
MaxOps == 4        \* user actions per behaviour of Spec
MaxInFlight == 1   \* backend calls that may be pending at the same time

(***************************************************************************)
(* Values.                                                                 *)
(***************************************************************************)
Null == <<"null">>                \* JS null / "no path"
Undefined == "undefined"          \* a missing key of a Record<string,string>
DEFAULT_CONTENT == "D"            \* the SKILL.md template text
SKILL_MD == <<"S", "K", "I", "L", "L", ".", "m", "d">>
MdSuffix == <<".", "m", "d">>
Texts == {"", "x", DEFAULT_CONTENT}
DefaultToolId == "t"              \* the id of the first enabled tool of the dashboard

InputChars == {"a", ".", "/", "\\", " "}

(***************************************************************************)
(* String primitives of JavaScript, on sequences of characters.            *)
(***************************************************************************)
RECURSIVE TrimLeft(_)
TrimLeft(s) ==
  IF s = <<>> THEN s
  ELSE IF Head(s) = " " THEN TrimLeft(Tail(s)) ELSE s

RECURSIVE TrimRight(_)
TrimRight(s) ==
  IF s = <<>> THEN s
  ELSE IF s[Len(s)] = " " THEN TrimRight(SubSeq(s, 1, Len(s) - 1)) ELSE s

Trim(s) == TrimRight(TrimLeft(s))

\* input.split("\\").join("/")
BackslashesToSlashes(s) == [i \in 1..Len(s) |-> IF s[i] = "\\" THEN "/" ELSE s[i]]

\* .replace(/^\/+/, "")
RECURSIVE StripLeadingSlashes(_)
StripLeadingSlashes(s) ==
  IF s = <<>> THEN s
  ELSE IF Head(s) = "/" THEN StripLeadingSlashes(Tail(s)) ELSE s

Includes(s, sub) ==
  \E i \in 1..(Len(s) - Len(sub) + 1) : SubSeq(s, i, i + Len(sub) - 1) = sub

StartsWith(s, p) == Len(p) <= Len(s) /\ SubSeq(s, 1, Len(p)) = p

EndsWith(s, p) == Len(p) <= Len(s) /\ SubSeq(s, Len(s) - Len(p) + 1, Len(s)) = p

\* 1-based index of the last "/", 0 when there is none (lastIndexOf = -1)
LastSlash(s) ==
  LET idx == {i \in 1..Len(s) : s[i] = "/"}
  IN IF idx = {} THEN 0 ELSE CHOOSE i \in idx : \A j \in idx : j <= i

FirstSlash(s) ==
  LET idx == {i \in 1..Len(s) : s[i] = "/"}
  IN IF idx = {} THEN 0 ELSE CHOOSE i \in idx : \A j \in idx : i <= j

\* s.split("/")
RECURSIVE Split(_)
Split(s) ==
  LET i == FirstSlash(s)
  IN IF i = 0 THEN <<s>>
     ELSE <<SubSeq(s, 1, i - 1)>> \o Split(SubSeq(s, i + 1, Len(s)))

\* parts.join("/")
RECURSIVE Join(_)
Join(parts) ==
  IF parts = <<>> THEN <<>>
  ELSE IF Len(parts) = 1 THEN parts[1]
  ELSE parts[1] \o <<"/">> \o Join(Tail(parts))

NonEmpty(p) == p # <<>>

LowerChar(c) ==
  CASE c = "S" -> "s" [] c = "K" -> "k" [] c = "I" -> "i" [] c = "L" -> "l"
    [] c = "M" -> "m" [] c = "D" -> "d" [] c = "A" -> "a" [] c = "B" -> "b"
    [] c = "E" -> "e" [] c = "F" -> "f" [] c = "X" -> "x" [] OTHER -> c

ToLowerCase(s) == [i \in 1..Len(s) |-> LowerChar(s[i])]

(***************************************************************************)
(* normalizeRelativePath / ensureMarkdownPath                              *)
(***************************************************************************)
\* a plausible slip: only a path that is exactly ".." is refused
normalizeRelativePath_OnlyWholeDotDot(input) ==
  LET trimmed == StripLeadingSlashes(BackslashesToSlashes(Trim(input)))
  IN IF trimmed = <<>> THEN Null
     ELSE IF trimmed = <<".", ".">> THEN Null
     ELSE Join(SelectSeq(Split(trimmed), NonEmpty))

normalizeRelativePath(input) ==
  LET trimmed == StripLeadingSlashes(BackslashesToSlashes(Trim(input)))
  IN IF trimmed = <<>> THEN Null
     ELSE IF Includes(trimmed, <<".", ".">>) THEN Null
     ELSE Join(SelectSeq(Split(trimmed), NonEmpty))

\* `!normalized`: null and the empty string are both falsy
Falsy(p) == p = Null \/ p = <<>>

ensureMarkdownPath(input) ==
  LET normalized == normalizeRelativePath(input)
  IN IF Falsy(normalized) THEN Null
     ELSE IF EndsWith(ToLowerCase(normalized), MdSuffix) THEN normalized
     ELSE normalized \o MdSuffix

(***************************************************************************)
(* sortEntries                                                             *)
(***************************************************************************)
normalizeParent(path) ==
  LET idx == LastSlash(path) IN IF idx = 0 THEN <<>> ELSE SubSeq(path, 1, idx - 1)

basename(path) ==
  LET idx == LastSlash(path) IN IF idx = 0 THEN path ELSE SubSeq(path, idx + 1, Len(path))

\* Collation rank of a character: punctuation before letters, letters in
\* alphabetical order whatever their case (primary strength).
PrimaryRank(c) ==
  CASE c = " " -> 1 [] c = "." -> 2 [] c = "/" -> 3 [] c = "\\" -> 4
    [] c \in {"a", "A"} -> 10 [] c \in {"b", "B"} -> 11 [] c \in {"d", "D"} -> 13
    [] c \in {"e", "E"} -> 14 [] c \in {"f", "F"} -> 15 [] c \in {"i", "I"} -> 18
    [] c \in {"k", "K"} -> 20 [] c \in {"l", "L"} -> 21 [] c \in {"m", "M"} -> 22
    [] c \in {"s", "S"} -> 28 [] c \in {"x", "X"} -> 33 [] OTHER -> 40

\* lower case sorts before upper case when the letters are the same (tertiary)
TertiaryRank(c) == IF LowerChar(c) = c THEN 0 ELSE 1

RECURSIVE CompareRanks(_, _)
CompareRanks(a, b) ==
  IF a = <<>> /\ b = <<>> THEN 0
  ELSE IF a = <<>> THEN -1
  ELSE IF b = <<>> THEN 1
  ELSE IF Head(a) < Head(b) THEN -1
  ELSE IF Head(a) > Head(b) THEN 1
  ELSE CompareRanks(Tail(a), Tail(b))

\* a.localeCompare(b)
localeCompare(a, b) ==
  LET p == CompareRanks([i \in 1..Len(a) |-> PrimaryRank(a[i])],
                        [i \in 1..Len(b) |-> PrimaryRank(b[i])])
  IN IF p # 0 THEN p
     ELSE CompareRanks([i \in 1..Len(a) |-> TertiaryRank(a[i])],
                       [i \in 1..Len(b) |-> TertiaryRank(b[i])])

\* the comparator of children.sort(...)
compareEntries(a, b) ==
  IF a.isDir # b.isDir THEN (IF a.isDir THEN -1 ELSE 1)
  ELSE localeCompare(basename(a.relativePath), basename(b.relativePath))

\* Array.prototype.sort is stable: insert after every element that is <= e
RECURSIVE InsertSorted(_, _)
InsertSorted(sorted, e) ==
  IF sorted = <<>> THEN <<e>>
  ELSE IF compareEntries(Head(sorted), e) <= 0
       THEN <<Head(sorted)>> \o InsertSorted(Tail(sorted), e)
       ELSE <<e>> \o sorted

RECURSIVE StableSort(_)
StableSort(list) ==
  IF list = <<>> THEN <<>>
  ELSE InsertSorted(StableSort(SubSeq(list, 1, Len(list) - 1)), list[Len(list)])

\* byParent.get(parent) ?? []
ChildrenOf(entries, parent) ==
  SelectSeq(entries, LAMBDA e : normalizeParent(e.relativePath) = parent)

RECURSIVE walk(_, _)
RECURSIVE walkChildren(_, _)
walkChildren(entries, children) ==
  IF children = <<>> THEN <<>>
  ELSE LET child == Head(children)
       IN <<child>>
          \o (IF child.isDir THEN walk(entries, child.relativePath) ELSE <<>>)
          \o walkChildren(entries, Tail(children))

walk(entries, parent) == walkChildren(entries, StableSort(ChildrenOf(entries, parent)))

sortEntries(entries) == walk(entries, <<>>)

Entry(path, dir) == [relativePath |-> path, isDir |-> dir]

createDefaultEntries == <<Entry(SKILL_MD, FALSE)>>


NoEntry == Entry(Null, FALSE)

(***************************************************************************)
(* Record<string, string> as JavaScript keeps it: keys in insertion order. *)
(***************************************************************************)
Has(d, k) == \E i \in 1..Len(d) : d[i].k = k

Get(d, k) ==
  IF Has(d, k) THEN d[CHOOSE i \in 1..Len(d) : d[i].k = k].v ELSE Undefined

\* { ...d, [k]: v }
Put(d, k, v) ==
  IF Has(d, k)
  THEN [i \in 1..Len(d) |-> IF d[i].k = k THEN [k |-> k, v |-> v] ELSE d[i]]
  ELSE Append(d, [k |-> k, v |-> v])

\* delete d[k]
Del(d, k) == SelectSeq(d, LAMBDA kv : kv.k # k)

\* x ?? ""
OrEmpty(x) == IF x = Undefined THEN "" ELSE x

Keys(d) == {d[i].k : i \in 1..Len(d)}

(***************************************************************************)
(* State.                                                                  *)
(***************************************************************************)
VARIABLES
  open,              \* App: editor.open
  mode,              \* App: editor.mode, "create" or "edit"
  editorUiMode,      \* "view" or "edit"
  entries,           \* SkillFileEntry[]
  selectedFile,
  contentByFile,
  savedByFile,
  dirtyFiles,
  collapsedDirs,
  pendingEntry,
  unsavedSwitchOpen,
  unsavedCloseOpen,
  loadingFile,
  saving,
  inflight,          \* backend calls that have been issued and not yet answered
  disk,              \* the skill directory behind the Tauri commands
  lastOp,            \* the handler that ran last, with its arguments
  overlap,           \* some handler has started while a call was pending
  opsLeft,
  createLog,         \* the commands the last "Create Skill" got answered, in order
  deleteTarget,      \* the entry of the "Move to Trash?" dialog, NoEntry when closed
  rawInput,          \* the raw dialog input the handlers are given in SpecInput
  skills,            \* SkillsView: the skills prop (DashboardData.skills)
  groupedSkills,     \* SkillsView: the groups its useMemo computed last
  market,            \* MarketplaceView: its useState values and its tool options
  root,              \* the target Root of an import: installed skills and staging area
  targetToolId,      \* the editor's "Tool" select: the tool a new skill is created for
  app                \* App: the dashboard data and its loading flag, the tools, the
                     \* search box, the sync dialog

vars == <<open, mode, editorUiMode, entries, selectedFile, contentByFile, savedByFile,
          dirtyFiles, collapsedDirs, pendingEntry, unsavedSwitchOpen, unsavedCloseOpen,
          loadingFile, saving, inflight, disk, lastOp, overlap, opsLeft, createLog,
          deleteTarget, rawInput, skills,
                 groupedSkills, market, root, targetToolId, app>>

\* the path-keyed state of the dialog, as one value
Shadow ==
  [entries |-> entries, contentByFile |-> contentByFile, savedByFile |-> savedByFile,
   dirtyFiles |-> dirtyFiles, collapsedDirs |-> collapsedDirs,
   selectedFile |-> selectedFile, mode |-> mode]

Op(kind, entry, raw, result) ==
  [kind |-> kind, entry |-> entry, raw |-> raw, result |-> result]

Task(kind, path, content, cont, target, c) ==
  [kind |-> kind, path |-> path, content |-> content, cont |-> cont,
   target |-> target, c |-> c, step |-> 0]

RemoveAt(seq, i) == SubSeq(seq, 1, i - 1) \o SubSeq(seq, i + 1, Len(seq))

isReadOnly == mode = "edit" /\ editorUiMode = "view"

deleteEntryDialogOpen == deleteTarget # NoEntry

NoModal == ~unsavedSwitchOpen /\ ~unsavedCloseOpen /\ ~deleteEntryDialogOpen

\* a user action may be taken: the budget is not used up
CanAct == open /\ opsLeft > 0

SlotFree == Len(inflight) < MaxInFlight

isHiddenByCollapsedParent(relativePath) ==
  LET parts == Split(relativePath)
  IN \E i \in 1..(Len(parts) - 1) : Join(SubSeq(parts, 1, i)) \in collapsedDirs

Visible == {i \in 1..Len(entries) : ~isHiddenByCollapsedParent(entries[i].relativePath)}


(***************************************************************************)
(* The skill directory on disk and the Tauri commands over it.  The Rust   *)
(* side is described by the specification only: files with their content,  *)
(* directories, and the Trash that deletions move things to.               *)
(***************************************************************************)
Ancestors(path) ==
  LET parts == Split(path)
  IN {Join(SubSeq(parts, 1, i)) : i \in 1..(Len(parts) - 1)}

Under(path, dir) == StartsWith(path, dir \o <<"/">>)

DiskFilePaths(d) == {f.k : f \in d.files}

DiskExists(d, rel) == rel \in DiskFilePaths(d) \/ rel \in d.dirs

DiskRead(d, rel) ==
  IF rel \in DiskFilePaths(d) THEN (CHOOSE f \in d.files : f.k = rel).v ELSE Undefined

DiskWrite(d, rel, content) ==
  [d EXCEPT !.files = {f \in d.files : f.k # rel} \cup {[k |-> rel, v |-> content]},
            !.dirs = d.dirs \cup Ancestors(rel)]

DiskMkdir(d, rel) == [d EXCEPT !.dirs = d.dirs \cup {rel} \cup Ancestors(rel)]

DiskMove(old, new, path) ==
  IF path = old THEN new
  ELSE IF Under(path, old) THEN new \o SubSeq(path, Len(old) + 1, Len(path))
  ELSE path

DiskCanRename(d, old, new) ==
  /\ DiskExists(d, old)
  /\ ~DiskExists(d, new)
  /\ Ancestors(new) \subseteq d.dirs
  /\ ~Under(new, old)

DiskRename(d, old, new) ==
  [d EXCEPT !.files = {[k |-> DiskMove(old, new, f.k), v |-> f.v] : f \in d.files},
            !.dirs = {DiskMove(old, new, p) : p \in d.dirs}]

DiskCanDeleteFile(d, rel) == rel \in DiskFilePaths(d)

\* an unlink in place of the move to the Trash
DiskDeleteFile_Unlink(d, rel) ==
  [d EXCEPT !.files = {f \in d.files : f.k # rel}]

DiskDeleteFile(d, rel) ==
  [d EXCEPT !.files = {f \in d.files : f.k # rel},
            !.trash = d.trash \cup {f \in d.files : f.k = rel}]

DiskCanDeleteEmptyDir(d, rel) ==
  /\ rel \in d.dirs
  /\ ~\E p \in DiskFilePaths(d) \cup d.dirs : Under(p, rel)

DiskDeleteEmptyDir(d, rel) ==
  [d EXCEPT !.dirs = d.dirs \ {rel},
            !.trash = d.trash \cup {[k |-> rel, v |-> Undefined]}]

\* delete_skill: the skill directory itself goes to the Trash, with all it holds
DiskDeleteSkill(d) ==
  [d EXCEPT !.files = {},
            !.dirs = {},
            !.trash = d.trash \cup d.files \cup {[k |-> p, v |-> Undefined] : p \in d.dirs},
            !.gone = TRUE]

RECURSIVE SetToSeq(_)
SetToSeq(S) ==
  IF S = {} THEN <<>>
  ELSE LET x == CHOOSE y \in S : TRUE IN <<x>> \o SetToSeq(S \ {x})

\* list_skill_files
DiskList(d) ==
  SetToSeq({Entry(p, TRUE) : p \in d.dirs} \cup {Entry(p, FALSE) : p \in DiskFilePaths(d)})

DirD == <<"d">>
FileDA == <<"d", "/", "a", ".", "m", "d">>

InitDisk ==
  [files |-> {[k |-> SKILL_MD, v |-> DEFAULT_CONTENT], [k |-> FileDA, v |-> ""]},
   dirs |-> {DirD},
   trash |-> {},
   gone |-> FALSE]

(***************************************************************************)
(* Bookkeeping shared by the actions.                                      *)
(***************************************************************************)
Acted(op) ==
  /\ lastOp' = op
  /\ overlap' = (overlap \/ inflight # <<>>)
  /\ opsLeft' = opsLeft - 1

\* a handler that only opens a dialog; the answer given in the dialog is what counts
Asked(op) ==
  /\ lastOp' = op
  /\ overlap' = (overlap \/ inflight # <<>>)
  /\ UNCHANGED opsLeft

Completed(op) ==
  /\ lastOp' = op
  /\ UNCHANGED <<overlap, opsLeft>>

\* loadFile(relativePath), called from a handler whose render saw cContent, cMode
LoadNeedsCall(rel, cContent, cMode) == ~Has(cContent, rel) /\ cMode = "edit"

LoadSync(rel, cContent, cMode, cur) ==
  IF ~Has(cContent, rel) /\ cMode # "edit" THEN Put(cur, rel, "") ELSE cur

LoadTask(rel) == Task("load", rel, "", "none", NoEntry, Shadow)

(***************************************************************************)
(* Initial state: the useState initialisers, dialog closed.                *)
(***************************************************************************)
\* dialogSkill when the install dialog is closed
NoSkill == [source |-> "", skillId |-> ""]

\* MarketplaceView: the useState initialisers, no tool to install to
InitMarket ==
  [repoUrl |-> <<>>, skillPath |-> "", targetToolId |-> "", submitting |-> FALSE,
   dialogSkill |-> NoSkill, dialogToolId |-> "", installPhase |-> "select",
   installError |-> "", toolOptions |-> <<>>]

\* the target Root holds one skill; nothing is being staged
InitRoot == [dirs |-> {[name |-> "s", version |-> 0]}, staging |-> {}]

\* syncSkill = null
NoSyncSkill == [path |-> Null, enabledFor |-> {}]

\* App and useDashboard before the first answer of get_dashboard_data: data is
\* null (0), loading; data k is the answer to the k-th refresh
InitApp ==
  [data |-> 0, loading |-> TRUE, started |-> 0,
   tools |-> <<>>, query |-> <<>>, toolOrder |-> <<>>,
   syncDialogOpen |-> FALSE, syncSkill |-> NoSyncSkill, syncTargetIds |-> <<>>,
   syncing |-> FALSE, syncLog |-> <<>>,
   syncDone |-> [success |-> 0, failed |-> <<>>], okIds |-> {}]

\* the views around the editor, before the dashboard has loaded
InitViews ==
  /\ skills = <<>>
  /\ groupedSkills = <<>>
  /\ market = InitMarket
  /\ root = InitRoot
  /\ app = InitApp

InitEditor ==
  /\ open = FALSE
  /\ mode = "create"
  /\ editorUiMode = "view"
  /\ entries = createDefaultEntries
  /\ selectedFile = SKILL_MD
  /\ contentByFile = <<[k |-> SKILL_MD, v |-> DEFAULT_CONTENT]>>
  /\ savedByFile = <<[k |-> SKILL_MD, v |-> DEFAULT_CONTENT]>>
  /\ dirtyFiles = {}
  /\ collapsedDirs = {}
  /\ pendingEntry = NoEntry
  /\ unsavedSwitchOpen = FALSE
  /\ unsavedCloseOpen = FALSE
  /\ loadingFile = FALSE
  /\ saving = FALSE
  /\ inflight = <<>>
  /\ disk = InitDisk
  /\ lastOp = Op("init", NoEntry, <<>>, "")
  /\ overlap = FALSE
  /\ createLog = <<>>
  /\ deleteTarget = NoEntry
  /\ targetToolId = ""

Init ==
  /\ InitEditor
  /\ InitViews
  /\ opsLeft = MaxOps
  /\ rawInput = <<>>

(***************************************************************************)
(* Opening the dialog: the effect on [mode, open, skill, tools].           *)
(***************************************************************************)
\* the body of the effect; in edit mode it issues list_skill_files
OpenEffect(m, tasks) ==
  IF m = "edit"
  THEN /\ inflight' = Append(tasks, Task("list", <<>>, "", "none", NoEntry, Shadow))
       /\ UNCHANGED <<entries, selectedFile, contentByFile, savedByFile, dirtyFiles,
                      collapsedDirs>>
  ELSE /\ inflight' = tasks
       /\ entries' = createDefaultEntries
       /\ collapsedDirs' = {}
       /\ selectedFile' = SKILL_MD
       /\ contentByFile' = <<[k |-> SKILL_MD, v |-> DEFAULT_CONTENT]>>
       /\ savedByFile' = <<[k |-> SKILL_MD, v |-> DEFAULT_CONTENT]>>
       /\ dirtyFiles' = {}

Open(m, defaultEditorMode) ==
  /\ ~open
  /\ ~disk.gone
  /\ m = "edit" => SlotFree
  /\ m = "create" => defaultEditorMode = "edit"
  /\ open' = TRUE
  /\ mode' = m
  /\ editorUiMode' = IF m = "edit" THEN defaultEditorMode ELSE "edit"
  /\ OpenEffect(m, inflight)
  /\ targetToolId' = DefaultToolId
  /\ lastOp' = Op("open", NoEntry, <<>>, m)
  /\ overlap' = (overlap \/ inflight # <<>>)
  /\ UNCHANGED <<pendingEntry, unsavedSwitchOpen, unsavedCloseOpen, loadingFile, saving,
                 disk, opsLeft, createLog, deleteTarget, rawInput, skills,
                 groupedSkills, market, root, app>>

\* finalEntries.find(...) ?? finalEntries.find(...) ?? "SKILL.md"
Preferred(finalEntries) ==
  LET files == SelectSeq(finalEntries, LAMBDA e : ~e.isDir)
  IN IF \E i \in 1..Len(files) : files[i].relativePath = SKILL_MD THEN SKILL_MD
     ELSE IF files # <<>> THEN files[1].relativePath
     ELSE SKILL_MD

\* list_skill_files answers
ListDone(i, ok) ==
  /\ i \in 1..Len(inflight)
  /\ inflight[i].kind = "list"
  /\ IF ok
     THEN LET finalEntries == sortEntries(DiskList(disk))
              preferred == Preferred(finalEntries)
          IN /\ entries' = finalEntries
             /\ collapsedDirs' = {}
             /\ selectedFile' = preferred
             /\ inflight' = Append(RemoveAt(inflight, i),
                                   Task("read", preferred, "", "none", NoEntry, inflight[i].c))
     ELSE /\ inflight' = RemoveAt(inflight, i)
          /\ UNCHANGED <<entries, collapsedDirs, selectedFile>>
  /\ Completed(Op("listDone", NoEntry, <<>>, IF ok THEN "ok" ELSE "backendFail"))
  /\ UNCHANGED <<open, mode, editorUiMode, contentByFile, savedByFile, dirtyFiles,
                 pendingEntry, unsavedSwitchOpen, unsavedCloseOpen, loadingFile, saving,
                 disk, createLog, deleteTarget, rawInput, skills,
                 groupedSkills, market, root, targetToolId, app>>

\* read_skill_entry of the preferred file answers
ReadDone(i, ok) ==
  /\ i \in 1..Len(inflight)
  /\ inflight[i].kind = "read"
  /\ ok => DiskRead(disk, inflight[i].path) # Undefined
  /\ IF ok
     THEN LET text == DiskRead(disk, inflight[i].path)
          IN /\ contentByFile' = <<[k |-> inflight[i].path, v |-> text]>>
             /\ savedByFile' = <<[k |-> inflight[i].path, v |-> text]>>
             /\ dirtyFiles' = {}
     ELSE UNCHANGED <<contentByFile, savedByFile, dirtyFiles>>
  /\ inflight' = RemoveAt(inflight, i)
  /\ Completed(Op("readDone", Entry(inflight[i].path, FALSE), <<>>,
                  IF ok THEN "ok" ELSE "backendFail"))
  /\ UNCHANGED <<open, mode, editorUiMode, entries, selectedFile, collapsedDirs,
                 pendingEntry, unsavedSwitchOpen, unsavedCloseOpen, loadingFile, saving,
                 disk, createLog, deleteTarget, rawInput, skills,
                 groupedSkills, market, root, targetToolId, app>>

\* read_skill_entry issued by loadFile answers
LoadDone(i, ok) ==
  /\ i \in 1..Len(inflight)
  /\ inflight[i].kind = "load"
  /\ ok => DiskRead(disk, inflight[i].path) # Undefined
  /\ IF ok
     THEN LET text == DiskRead(disk, inflight[i].path)
          IN /\ contentByFile' = Put(contentByFile, inflight[i].path, text)
             /\ savedByFile' = Put(savedByFile, inflight[i].path, text)
             /\ dirtyFiles' = dirtyFiles \ {inflight[i].path}
     ELSE UNCHANGED <<contentByFile, savedByFile, dirtyFiles>>
  /\ loadingFile' = FALSE
  /\ inflight' = RemoveAt(inflight, i)
  /\ Completed(Op("loadDone", Entry(inflight[i].path, FALSE), <<>>,
                  IF ok THEN "ok" ELSE "backendFail"))
  /\ UNCHANGED <<open, mode, editorUiMode, entries, selectedFile, collapsedDirs,
                 pendingEntry, unsavedSwitchOpen, unsavedCloseOpen, saving, disk, createLog, deleteTarget, rawInput, skills,
                 groupedSkills, market, root, targetToolId, app>>

(***************************************************************************)
(* Typing in the editor: CodeMirror onChange with a user event.            *)
(***************************************************************************)
\* the updater given to setDirtyFiles
DirtyAfterChange(dirty, file, nextValue, baseline) ==
  IF nextValue # baseline THEN dirty \cup {file} ELSE dirty \ {file}

Edit(nextValue) ==
  /\ CanAct /\ NoModal
  /\ ~isReadOnly
  /\ ~loadingFile
  /\ nextValue # OrEmpty(Get(contentByFile, selectedFile))
  /\ contentByFile' = Put(contentByFile, selectedFile, nextValue)
  /\ dirtyFiles' = DirtyAfterChange(dirtyFiles, selectedFile, nextValue,
                                    OrEmpty(Get(savedByFile, selectedFile)))
  /\ Acted(Op("edit", Entry(selectedFile, FALSE), <<>>, nextValue))
  /\ UNCHANGED <<open, mode, editorUiMode, entries, selectedFile, savedByFile,
                 collapsedDirs, pendingEntry, unsavedSwitchOpen, unsavedCloseOpen,
                 loadingFile, saving, inflight, disk, createLog, deleteTarget, rawInput, skills,
                 groupedSkills, market, root, targetToolId, app>>


(***************************************************************************)
(* saveCurrentFile and what its callers do once it has answered.           *)
(***************************************************************************)
\* saveCurrentFile gets as far as save_skill_entry
SaveNeeded == mode = "edit" /\ selectedFile \in dirtyFiles

SaveTask(cont, target) ==
  Task("save", selectedFile, OrEmpty(Get(contentByFile, selectedFile)), cont, target, Shadow)

RefreshTask(cont) == Task("refresh", <<>>, "", cont, NoEntry, Shadow)

\* switchToEntry(target), from a handler whose render saw c
SwitchToEntry(target, c, tasks) ==
  /\ selectedFile' = target.relativePath
  /\ IF LoadNeedsCall(target.relativePath, c.contentByFile, c.mode)
     THEN /\ loadingFile' = TRUE
          /\ inflight' = Append(tasks, LoadTask(target.relativePath))
          /\ UNCHANGED contentByFile
     ELSE /\ contentByFile' =
               LoadSync(target.relativePath, c.contentByFile, c.mode, contentByFile)
          /\ inflight' = tasks
          /\ UNCHANGED loadingFile

\* the caller of saveCurrentFile after it returned true
SaveContinue(cont, target, c, tasks) ==
  CASE cont = "switch" ->
         /\ unsavedSwitchOpen' = FALSE
         /\ pendingEntry' = NoEntry
         /\ SwitchToEntry(target, c, tasks)
         /\ UNCHANGED <<open, unsavedCloseOpen>>
    [] cont = "close" ->
         /\ unsavedCloseOpen' = FALSE
         /\ open' = FALSE
         /\ inflight' = tasks
         /\ UNCHANGED <<pendingEntry, unsavedSwitchOpen, selectedFile, contentByFile,
                        loadingFile>>
    [] OTHER ->
         \* submit: onSaved() refreshes the dashboard
         /\ inflight' = Append(tasks, RefreshTask("submit"))
         /\ UNCHANGED <<open, pendingEntry, unsavedSwitchOpen, unsavedCloseOpen,
                        selectedFile, contentByFile, loadingFile>>

SaveSucceeded(ok) == ok

\* save_skill_entry answers
SaveDone(i, ok) ==
  /\ i \in 1..Len(inflight)
  /\ inflight[i].kind = "save"
  /\ LET t == inflight[i]
     IN /\ disk' = IF ok THEN DiskWrite(disk, t.path, t.content) ELSE disk
        /\ saving' = FALSE
        /\ IF SaveSucceeded(ok)
           THEN /\ savedByFile' = Put(savedByFile, t.path, t.content)
                /\ dirtyFiles' = dirtyFiles \ {t.path}
                /\ SaveContinue(t.cont, t.target, t.c, RemoveAt(inflight, i))
           ELSE /\ inflight' = RemoveAt(inflight, i)
                /\ UNCHANGED <<open, pendingEntry, unsavedSwitchOpen, unsavedCloseOpen,
                               selectedFile, contentByFile, loadingFile, savedByFile,
                               dirtyFiles>>
        /\ Completed(Op("saveDone", Entry(t.path, FALSE), <<>>,
                        IF ok THEN t.cont ELSE "backendFail"))
  /\ UNCHANGED <<mode, editorUiMode, entries, collapsedDirs, createLog, deleteTarget, rawInput, skills,
                 groupedSkills, market, root, targetToolId, app>>

(***************************************************************************)
(* Selecting an entry of the tree, and the "unsaved changes" dialog that    *)
(* guards switching files.                                                 *)
(***************************************************************************)
MustAskBeforeSwitch(relativePath) ==
  mode = "edit" /\ selectedFile # relativePath /\ selectedFile \in dirtyFiles

onSelectEntry(i) ==
  /\ CanAct /\ NoModal
  /\ i \in Visible
  /\ LET entry == entries[i]
     IN /\ IF entry.isDir
           THEN /\ collapsedDirs' =
                     IF entry.relativePath \in collapsedDirs
                     THEN collapsedDirs \ {entry.relativePath}
                     ELSE collapsedDirs \cup {entry.relativePath}
                /\ UNCHANGED <<pendingEntry, unsavedSwitchOpen, selectedFile,
                               contentByFile, loadingFile, inflight>>
           ELSE IF MustAskBeforeSwitch(entry.relativePath)
           THEN /\ pendingEntry' = entry
                /\ unsavedSwitchOpen' = TRUE
                /\ UNCHANGED <<collapsedDirs, selectedFile, contentByFile, loadingFile,
                               inflight>>
           ELSE /\ LoadNeedsCall(entry.relativePath, contentByFile, mode) => SlotFree
                /\ SwitchToEntry(entry, Shadow, inflight)
                /\ UNCHANGED <<collapsedDirs, pendingEntry, unsavedSwitchOpen>>
        /\ IF ~entry.isDir /\ MustAskBeforeSwitch(entry.relativePath)
           THEN Asked(Op("select", entry, <<>>, "ask"))
           ELSE Acted(Op("select", entry, <<>>, IF entry.isDir THEN "toggle" ELSE "switch"))
  /\ UNCHANGED <<open, mode, editorUiMode, entries, savedByFile, dirtyFiles,
                 unsavedCloseOpen, saving, disk, createLog, deleteTarget, rawInput, skills,
                 groupedSkills, market, root, targetToolId, app>>

\* Cancel, Escape or a click outside the dialog
onUnsavedSwitchCancel ==
  /\ unsavedSwitchOpen /\ opsLeft > 0
  /\ unsavedSwitchOpen' = FALSE
  /\ pendingEntry' = NoEntry
  /\ Acted(Op("switchCancel", pendingEntry, <<>>, "cancel"))
  /\ UNCHANGED <<open, mode, editorUiMode, entries, selectedFile, contentByFile,
                 savedByFile, dirtyFiles, collapsedDirs, unsavedCloseOpen, loadingFile,
                 saving, inflight, disk, createLog, deleteTarget, rawInput, skills,
                 groupedSkills, market, root, targetToolId, app>>

onUnsavedDiscardAndSwitch ==
  /\ unsavedSwitchOpen /\ opsLeft > 0
  /\ pendingEntry # NoEntry
  /\ LoadNeedsCall(pendingEntry.relativePath, contentByFile, mode) => SlotFree
  /\ LET current == selectedFile
         reverted == Put(contentByFile, current, OrEmpty(Get(savedByFile, current)))
     IN /\ dirtyFiles' = dirtyFiles \ {current}
        /\ unsavedSwitchOpen' = FALSE
        /\ pendingEntry' = NoEntry
        /\ selectedFile' = pendingEntry.relativePath
        /\ IF LoadNeedsCall(pendingEntry.relativePath, contentByFile, mode)
           THEN /\ loadingFile' = TRUE
                /\ inflight' = Append(inflight, LoadTask(pendingEntry.relativePath))
                /\ contentByFile' = reverted
           ELSE /\ contentByFile' =
                     LoadSync(pendingEntry.relativePath, contentByFile, mode, reverted)
                /\ UNCHANGED <<loadingFile, inflight>>
  /\ Acted(Op("switchDiscard", pendingEntry, <<>>, "discard"))
  /\ UNCHANGED <<open, mode, editorUiMode, entries, savedByFile, collapsedDirs,
                 unsavedCloseOpen, saving, disk, createLog, deleteTarget, rawInput, skills,
                 groupedSkills, market, root, targetToolId, app>>

onUnsavedSaveAndSwitch ==
  /\ unsavedSwitchOpen /\ opsLeft > 0
  /\ pendingEntry # NoEntry
  /\ IF SaveNeeded
     THEN /\ SlotFree
          /\ saving' = TRUE
          /\ inflight' = Append(inflight, SaveTask("switch", pendingEntry))
          /\ UNCHANGED <<open, pendingEntry, unsavedSwitchOpen, unsavedCloseOpen,
                         selectedFile, contentByFile, loadingFile>>
     ELSE /\ LoadNeedsCall(pendingEntry.relativePath, contentByFile, mode) => SlotFree
          /\ SaveContinue("switch", pendingEntry, Shadow, inflight)
          /\ UNCHANGED saving
  /\ Acted(Op("switchSave", pendingEntry, <<>>, IF SaveNeeded THEN "started" ELSE "clean"))
  /\ UNCHANGED <<mode, editorUiMode, entries, savedByFile, dirtyFiles, collapsedDirs,
                 disk, createLog, deleteTarget, rawInput, skills,
                 groupedSkills, market, root, targetToolId, app>>

(***************************************************************************)
(* Closing the dialog.                                                     *)
(***************************************************************************)
hasCreateDraftChanges ==
  \/ dirtyFiles # {}
  \/ Len(entries) # 1
  \/ ~(entries[1].relativePath = SKILL_MD /\ entries[1].isDir = FALSE)

hasUnsavedForClose ==
  IF mode = "edit" THEN dirtyFiles # {} ELSE hasCreateDraftChanges

\* the close button, Escape or a click outside the editor dialog
onRequestClose ==
  /\ CanAct /\ NoModal
  /\ IF hasUnsavedForClose
     THEN unsavedCloseOpen' = TRUE /\ UNCHANGED open
     ELSE open' = FALSE /\ UNCHANGED unsavedCloseOpen
  /\ IF hasUnsavedForClose
     THEN Asked(Op("requestClose", NoEntry, <<>>, "ask"))
     ELSE Acted(Op("requestClose", NoEntry, <<>>, "closed"))
  /\ UNCHANGED <<mode, editorUiMode, entries, selectedFile, contentByFile, savedByFile,
                 dirtyFiles, collapsedDirs, pendingEntry, unsavedSwitchOpen, loadingFile,
                 saving, inflight, disk, createLog, deleteTarget, rawInput, skills,
                 groupedSkills, market, root, targetToolId, app>>

onUnsavedCloseCancel ==
  /\ unsavedCloseOpen /\ opsLeft > 0
  /\ unsavedCloseOpen' = FALSE
  /\ Acted(Op("closeCancel", NoEntry, <<>>, "cancel"))
  /\ UNCHANGED <<open, mode, editorUiMode, entries, selectedFile, contentByFile,
                 savedByFile, dirtyFiles, collapsedDirs, pendingEntry, unsavedSwitchOpen,
                 loadingFile, saving, inflight, disk, createLog, deleteTarget, rawInput, skills,
                 groupedSkills, market, root, targetToolId, app>>

onUnsavedDiscardAndClose ==
  /\ unsavedCloseOpen /\ opsLeft > 0
  /\ unsavedCloseOpen' = FALSE
  /\ open' = FALSE
  /\ Acted(Op("closeDiscard", NoEntry, <<>>, "discard"))
  /\ UNCHANGED <<mode, editorUiMode, entries, selectedFile, contentByFile, savedByFile,
                 dirtyFiles, collapsedDirs, pendingEntry, unsavedSwitchOpen, loadingFile,
                 saving, inflight, disk, createLog, deleteTarget, rawInput, skills,
                 groupedSkills, market, root, targetToolId, app>>


(***************************************************************************)
(* Creating folders and markdown files.                                    *)
(***************************************************************************)
HasDir(list, path) == \E i \in 1..Len(list) : list[i].relativePath = path /\ list[i].isDir

HasFile(list, path) == \E i \in 1..Len(list) : list[i].relativePath = path /\ ~list[i].isDir

HasPath(list, path) == \E i \in 1..Len(list) : list[i].relativePath = path

\* for (i = from; i <= upto; i++) push parts.slice(0, i).join("/") unless it is a folder
RECURSIVE AddDirs(_, _, _, _)
AddDirs(nextEntries, parts, from, upto) ==
  IF from > upto THEN nextEntries
  ELSE LET dir == Join(SubSeq(parts, 1, from))
       IN AddDirs(IF HasDir(nextEntries, dir) THEN nextEntries
                  ELSE Append(nextEntries, Entry(dir, TRUE)),
                  parts, from + 1, upto)

\* the part of createFolder that runs before create_skill_dir is called
CreateFolderResult(cEntries, folderPath) ==
  LET normalized == normalizeRelativePath(folderPath)
  IN IF Falsy(normalized)
     THEN [status |-> "invalid", normalized |-> Null, entries |-> cEntries]
     ELSE IF HasDir(cEntries, normalized)
     THEN [status |-> "exists", normalized |-> normalized, entries |-> cEntries]
     ELSE LET parts == Split(normalized)
          IN [status |-> "ok", normalized |-> normalized,
              entries |-> sortEntries(AddDirs(cEntries, parts, 1, Len(parts)))]

\* New Folder... (confirmCreateEntry) or one of the "Add <folder>/" items
createFolder(raw) ==
  /\ CanAct /\ NoModal
  /\ ~isReadOnly
  /\ LET r == CreateFolderResult(entries, Trim(raw))
     IN /\ entries' = r.entries
        /\ IF r.status = "ok" /\ mode = "edit"
           THEN /\ SlotFree
                /\ inflight' = Append(inflight,
                                      Task("mkdir", r.normalized, "", "none", NoEntry, Shadow))
           ELSE UNCHANGED inflight
        /\ Acted(Op("createFolder", NoEntry, raw, r.status))
  /\ UNCHANGED <<open, mode, editorUiMode, selectedFile, contentByFile, savedByFile,
                 dirtyFiles, collapsedDirs, pendingEntry, unsavedSwitchOpen,
                 unsavedCloseOpen, loadingFile, saving, disk, createLog, deleteTarget, rawInput, skills,
                 groupedSkills, market, root, targetToolId, app>>

\* createMarkdownEntry after `await createFolder(parent)`; c is what its render saw,
\* shown is the entries list if the file turns out to exist already
MarkdownRest(relative, c, shown) ==
  IF HasFile(c.entries, relative)
  THEN /\ entries' = shown
       /\ UNCHANGED <<contentByFile, savedByFile, selectedFile>>
  ELSE LET parts == Split(relative)
           nextEntries == Append(AddDirs(c.entries, parts, 1, Len(parts) - 1),
                                 Entry(relative, FALSE))
       IN /\ entries' = sortEntries(nextEntries)
          /\ contentByFile' = Put(contentByFile, relative, OrEmpty(Get(contentByFile, relative)))
          /\ savedByFile' = Put(savedByFile, relative, OrEmpty(Get(savedByFile, relative)))
          /\ selectedFile' = relative

\* New Markdown (confirmCreateEntry)
createMarkdownEntry(raw) ==
  /\ CanAct /\ NoModal
  /\ ~isReadOnly
  /\ LET relative == ensureMarkdownPath(Trim(raw))
         parent == IF Falsy(relative) THEN <<>> ELSE normalizeParent(relative)
         r == CreateFolderResult(entries, parent)
     IN /\ IF Falsy(relative)
           THEN UNCHANGED <<entries, contentByFile, savedByFile, selectedFile, inflight>>
           ELSE IF parent # <<>> /\ r.status = "ok" /\ mode = "edit"
           THEN /\ SlotFree
                /\ entries' = r.entries
                /\ inflight' = Append(inflight,
                     Task("mkdir", r.normalized, "", "createMd", Entry(relative, FALSE), Shadow))
                /\ UNCHANGED <<contentByFile, savedByFile, selectedFile>>
           ELSE /\ MarkdownRest(relative, Shadow,
                                IF parent # <<>> THEN r.entries ELSE entries)
                /\ UNCHANGED inflight
        /\ Acted(Op("createMarkdown", NoEntry, raw,
                    IF Falsy(relative) THEN "invalid"
                    ELSE IF parent # <<>> /\ r.status = "ok" /\ mode = "edit" THEN "started"
                    ELSE IF HasFile(entries, relative) THEN "exists"
                    ELSE "ok"))
  /\ UNCHANGED <<open, mode, editorUiMode, dirtyFiles, collapsedDirs, pendingEntry,
                 unsavedSwitchOpen, unsavedCloseOpen, loadingFile, saving, disk, createLog, deleteTarget, rawInput, skills,
                 groupedSkills, market, root, targetToolId, app>>

\* create_skill_dir answers; a failure is only reported
MkdirDone(i, ok) ==
  /\ i \in 1..Len(inflight)
  /\ inflight[i].kind = "mkdir"
  /\ LET t == inflight[i]
     IN /\ disk' = IF ok THEN DiskMkdir(disk, t.path) ELSE disk
        /\ IF t.cont = "createMd"
           THEN MarkdownRest(t.target.relativePath, t.c, entries)
           ELSE UNCHANGED <<entries, contentByFile, savedByFile, selectedFile>>
        /\ Completed(Op("mkdirDone", Entry(t.path, TRUE), <<>>,
                        IF ok THEN "ok" ELSE "backendFail"))
  /\ inflight' = RemoveAt(inflight, i)
  /\ UNCHANGED <<open, mode, editorUiMode, dirtyFiles, collapsedDirs, pendingEntry,
                 unsavedSwitchOpen, unsavedCloseOpen, loadingFile, saving, createLog, deleteTarget, rawInput, skills,
                 groupedSkills, market, root, targetToolId, app>>

(***************************************************************************)
(* Renaming an entry.                                                      *)
(***************************************************************************)
\* a plausible slip: only an entry of the same kind counts as a conflict
RenameConflict_SameKindOnly(cEntries, entry, normalized) ==
  \E i \in 1..Len(cEntries) :
    cEntries[i].relativePath = normalized /\ cEntries[i].isDir = entry.isDir

RenameConflict(cEntries, entry, normalized) == HasPath(cEntries, normalized)

\* renameEntry up to the point where rename_skill_entry would be called
RenameTarget(cEntries, entry, nextNameRaw) ==
  LET oldName == basename(entry.relativePath)
      nextName == Trim(nextNameRaw)
      parent == normalizeParent(entry.relativePath)
      newRelative == IF parent # <<>> THEN parent \o <<"/">> \o nextName ELSE nextName
      normalized == normalizeRelativePath(newRelative)
  IN IF nextName = <<>> \/ nextName = oldName
     THEN [status |-> "noop", normalized |-> Null]
     ELSE IF Falsy(normalized)
     THEN [status |-> "invalid", normalized |-> Null]
     ELSE IF RenameConflict(cEntries, entry, normalized)
     THEN [status |-> "exists", normalized |-> normalized]
     ELSE [status |-> "ok", normalized |-> normalized]

remap(entry, normalized, path) ==
  IF path = entry.relativePath THEN normalized
  ELSE IF entry.isDir /\ StartsWith(path, entry.relativePath \o <<"/">>)
  THEN normalized \o SubSeq(path, Len(entry.relativePath) + 1, Len(path))
  ELSE path

\* for (const [k, v] of Object.entries(prev)) next[remap(k)] = v
RECURSIVE RemapRecord(_, _, _, _)
RemapRecord(next, prev, entry, normalized) ==
  IF prev = <<>> THEN next
  ELSE RemapRecord(Put(next, remap(entry, normalized, Head(prev).k), Head(prev).v),
                   Tail(prev), entry, normalized)

RemapSet(prev, entry, normalized) == {remap(entry, normalized, k) : k \in prev}

RemapEntries(prev, entry, normalized) ==
  sortEntries([i \in 1..Len(prev) |->
                 Entry(remap(entry, normalized, prev[i].relativePath), prev[i].isDir)])

\* the state updates of renameEntry
ApplyRename(entry, normalized) ==
  /\ entries' = RemapEntries(entries, entry, normalized)
  /\ contentByFile' = RemapRecord(<<>>, contentByFile, entry, normalized)
  /\ savedByFile' = RemapRecord(<<>>, savedByFile, entry, normalized)
  /\ dirtyFiles' = RemapSet(dirtyFiles, entry, normalized)
  /\ collapsedDirs' = RemapSet(collapsedDirs, entry, normalized)
  /\ selectedFile' = remap(entry, normalized, selectedFile)

\* Rename File / Rename Folder, confirmed in the rename dialog
renameEntry(i, nextNameRaw) ==
  /\ CanAct /\ NoModal
  /\ ~isReadOnly
  /\ i \in Visible
  /\ LET entry == entries[i]
         r == RenameTarget(entries, entry, nextNameRaw)
     IN /\ IF r.status # "ok"
           THEN UNCHANGED <<entries, contentByFile, savedByFile, dirtyFiles, collapsedDirs,
                            selectedFile, inflight>>
           ELSE IF mode = "edit"
           THEN /\ SlotFree
                /\ inflight' = Append(inflight,
                                      Task("rename", r.normalized, "", "none", entry, Shadow))
                /\ UNCHANGED <<entries, contentByFile, savedByFile, dirtyFiles,
                               collapsedDirs, selectedFile>>
           ELSE /\ ApplyRename(entry, r.normalized)
                /\ UNCHANGED inflight
        /\ Acted(Op("rename", entry, nextNameRaw,
                    IF r.status = "ok" /\ mode = "edit" THEN "started" ELSE r.status))
  /\ UNCHANGED <<open, mode, editorUiMode, pendingEntry, unsavedSwitchOpen,
                 unsavedCloseOpen, loadingFile, saving, disk, createLog, deleteTarget, rawInput, skills,
                 groupedSkills, market, root, targetToolId, app>>

\* rename_skill_entry answers
RenameDone(i, ok) ==
  /\ i \in 1..Len(inflight)
  /\ inflight[i].kind = "rename"
  /\ LET t == inflight[i]
     IN /\ ok => DiskCanRename(disk, t.target.relativePath, t.path)
        /\ IF ok
           THEN /\ disk' = DiskRename(disk, t.target.relativePath, t.path)
                /\ ApplyRename(t.target, t.path)
           ELSE UNCHANGED <<disk, entries, contentByFile, savedByFile, dirtyFiles,
                            collapsedDirs, selectedFile>>
        /\ Completed(Op("renameDone", t.target, t.path, IF ok THEN "ok" ELSE "backendFail"))
  /\ inflight' = RemoveAt(inflight, i)
  /\ UNCHANGED <<open, mode, editorUiMode, pendingEntry, unsavedSwitchOpen,
                 unsavedCloseOpen, loadingFile, saving, createLog, deleteTarget, rawInput, skills,
                 groupedSkills, market, root, targetToolId, app>>


(***************************************************************************)
(* Deleting a file or an empty folder.                                     *)
(***************************************************************************)
\* entries.find((e) => !e.isDir && e.relativePath !== path)?.relativePath ?? "SKILL.md"
FirstOtherFile(cEntries, path) ==
  LET files == SelectSeq(cEntries, LAMBDA e : ~e.isDir /\ e.relativePath # path)
  IN IF files # <<>> THEN files[1].relativePath ELSE SKILL_MD

\* the state updates of deleteFile; c is what its render saw
ApplyDeleteFile(entry, c, tasks) ==
  LET path == entry.relativePath
      firstFile == FirstOtherFile(c.entries, path)
  IN /\ entries' = SelectSeq(entries, LAMBDA e : e.relativePath # path)
     /\ savedByFile' = Del(savedByFile, path)
     /\ dirtyFiles' = dirtyFiles \ {path}
     /\ IF c.selectedFile = path
        THEN /\ selectedFile' = firstFile
             /\ IF LoadNeedsCall(firstFile, c.contentByFile, c.mode)
                THEN /\ loadingFile' = TRUE
                     /\ inflight' = Append(tasks, LoadTask(firstFile))
                     /\ contentByFile' = Del(contentByFile, path)
                ELSE /\ contentByFile' =
                          LoadSync(firstFile, c.contentByFile, c.mode, Del(contentByFile, path))
                     /\ inflight' = tasks
                     /\ UNCHANGED loadingFile
        ELSE /\ contentByFile' = Del(contentByFile, path)
             /\ inflight' = tasks
             /\ UNCHANGED <<selectedFile, loadingFile>>

hasChildren(cEntries, entry) ==
  \E i \in 1..Len(cEntries) :
    StartsWith(cEntries[i].relativePath, entry.relativePath \o <<"/">>)

\* Delete File / Delete Folder of an entry's context menu
requestDeleteEntry(i) ==
  /\ CanAct /\ NoModal
  /\ ~isReadOnly
  /\ i \in Visible
  /\ entries[i].isDir => ~hasChildren(entries, entries[i])
  /\ deleteTarget' = entries[i]
  /\ Asked(Op("requestDelete", entries[i], <<>>, "asked"))
  /\ UNCHANGED <<open, mode, editorUiMode, entries, selectedFile, contentByFile,
                 savedByFile, dirtyFiles, collapsedDirs, pendingEntry, unsavedSwitchOpen,
                 unsavedCloseOpen, loadingFile, saving, inflight, disk, createLog,
                 rawInput, skills,
                 groupedSkills, market, root, targetToolId, app>>

\* Cancel or Escape in the "Move to Trash?" dialog
cancelDeleteEntry ==
  /\ deleteEntryDialogOpen /\ opsLeft > 0
  /\ deleteTarget' = NoEntry
  /\ Acted(Op("cancelDelete", deleteTarget, <<>>, "cancel"))
  /\ UNCHANGED <<open, mode, editorUiMode, entries, selectedFile, contentByFile,
                 savedByFile, dirtyFiles, collapsedDirs, pendingEntry, unsavedSwitchOpen,
                 unsavedCloseOpen, loadingFile, saving, inflight, disk, createLog,
                 rawInput, skills,
                 groupedSkills, market, root, targetToolId, app>>

\* Move to Trash (confirmDeleteEntry) on a file
deleteFile ==
  /\ deleteEntryDialogOpen /\ opsLeft > 0
  /\ ~deleteTarget.isDir
  /\ IF mode = "edit"
     THEN /\ SlotFree
          /\ inflight' = Append(inflight,
                                Task("deleteFile", deleteTarget.relativePath, "", "none",
                                     deleteTarget, Shadow))
          /\ UNCHANGED <<entries, contentByFile, savedByFile, dirtyFiles, selectedFile,
                         loadingFile, deleteTarget>>
     ELSE /\ ApplyDeleteFile(deleteTarget, Shadow, inflight)
          /\ deleteTarget' = NoEntry
  /\ Acted(Op("deleteFile", deleteTarget, <<>>, IF mode = "edit" THEN "started" ELSE "ok"))
  /\ UNCHANGED <<open, mode, editorUiMode, collapsedDirs, pendingEntry, unsavedSwitchOpen,
                 unsavedCloseOpen, saving, disk, createLog, rawInput, skills,
                 groupedSkills, market, root, targetToolId, app>>

\* delete_skill_entry answers
DeleteFileDone(i, ok) ==
  /\ i \in 1..Len(inflight)
  /\ inflight[i].kind = "deleteFile"
  /\ LET t == inflight[i]
     IN /\ ok => DiskCanDeleteFile(disk, t.path)
        /\ IF ok
           THEN /\ disk' = DiskDeleteFile(disk, t.path)
                /\ ApplyDeleteFile(t.target, t.c, RemoveAt(inflight, i))
                /\ deleteTarget' = NoEntry
           ELSE /\ inflight' = RemoveAt(inflight, i)
                /\ UNCHANGED <<disk, entries, contentByFile, savedByFile, dirtyFiles,
                               selectedFile, loadingFile, deleteTarget>>
        /\ Completed(Op("deleteFileDone", t.target, <<>>, IF ok THEN "ok" ELSE "backendFail"))
  /\ UNCHANGED <<open, mode, editorUiMode, collapsedDirs, pendingEntry, unsavedSwitchOpen,
                 unsavedCloseOpen, saving, createLog, rawInput, skills,
                 groupedSkills, market, root, targetToolId, app>>

\* the state updates of deleteEmptyFolder
ApplyDeleteEmptyFolder(entry) ==
  /\ entries' = SelectSeq(entries, LAMBDA e : e.relativePath # entry.relativePath)
  /\ collapsedDirs' = collapsedDirs \ {entry.relativePath}

\* Move to Trash (confirmDeleteEntry) on a folder
deleteEmptyFolder ==
  /\ deleteEntryDialogOpen /\ opsLeft > 0
  /\ deleteTarget.isDir
  /\ IF hasChildren(entries, deleteTarget)
     THEN UNCHANGED <<entries, collapsedDirs, inflight, deleteTarget>>
     ELSE IF mode = "edit"
     THEN /\ SlotFree
          /\ inflight' = Append(inflight,
                                Task("rmdir", deleteTarget.relativePath, "", "none",
                                     deleteTarget, Shadow))
          /\ UNCHANGED <<entries, collapsedDirs, deleteTarget>>
     ELSE /\ ApplyDeleteEmptyFolder(deleteTarget)
          /\ deleteTarget' = NoEntry
          /\ UNCHANGED inflight
  /\ Acted(Op("deleteFolder", deleteTarget, <<>>,
              IF hasChildren(entries, deleteTarget) THEN "refused"
              ELSE IF mode = "edit" THEN "started" ELSE "ok"))
  /\ UNCHANGED <<open, mode, editorUiMode, selectedFile, contentByFile, savedByFile,
                 dirtyFiles, pendingEntry, unsavedSwitchOpen, unsavedCloseOpen,
                 loadingFile, saving, disk, createLog, rawInput, skills,
                 groupedSkills, market, root, targetToolId, app>>

\* delete_skill_empty_dir answers
RmdirDone(i, ok) ==
  /\ i \in 1..Len(inflight)
  /\ inflight[i].kind = "rmdir"
  /\ LET t == inflight[i]
     IN /\ ok => DiskCanDeleteEmptyDir(disk, t.path)
        /\ IF ok
           THEN /\ disk' = DiskDeleteEmptyDir(disk, t.path)
                /\ ApplyDeleteEmptyFolder(t.target)
                /\ deleteTarget' = NoEntry
           ELSE UNCHANGED <<disk, entries, collapsedDirs, deleteTarget>>
        /\ Completed(Op("rmdirDone", t.target, <<>>, IF ok THEN "ok" ELSE "backendFail"))
  /\ inflight' = RemoveAt(inflight, i)
  /\ UNCHANGED <<open, mode, editorUiMode, selectedFile, contentByFile, savedByFile,
                 dirtyFiles, pendingEntry, unsavedSwitchOpen, unsavedCloseOpen,
                 loadingFile, saving, createLog, rawInput, skills,
                 groupedSkills, market, root, targetToolId, app>>


(***************************************************************************)
(* submit: "Save File" in edit mode, "Create Skill" in create mode.        *)
(***************************************************************************)
\* !skillContent.trim()
IsBlank(text) == text = ""

\* the commands "Create Skill" issues, in order, for the entries its render saw
\* the extra files are written before the directories are made
CreateCalls_FilesFirst(c) ==
  LET dirs == SelectSeq(c.entries, LAMBDA e : e.isDir)
      extraFiles == SelectSeq(c.entries, LAMBDA e : ~e.isDir /\ e.relativePath # SKILL_MD)
  IN <<[cmd |-> "save_skill_file", path |-> SKILL_MD]>>
     \o [i \in 1..Len(extraFiles) |->
           [cmd |-> "save_skill_entry", path |-> extraFiles[i].relativePath]]
     \o [i \in 1..Len(dirs) |-> [cmd |-> "create_skill_dir", path |-> dirs[i].relativePath]]

CreateCalls(c) ==
  LET dirs == SelectSeq(c.entries, LAMBDA e : e.isDir)
      extraFiles == SelectSeq(c.entries, LAMBDA e : ~e.isDir /\ e.relativePath # SKILL_MD)
  IN <<[cmd |-> "save_skill_file", path |-> SKILL_MD]>>
     \o [i \in 1..Len(dirs) |-> [cmd |-> "create_skill_dir", path |-> dirs[i].relativePath]]
     \o [i \in 1..Len(extraFiles) |->
           [cmd |-> "save_skill_entry", path |-> extraFiles[i].relativePath]]

CreateTask(cont, c, step) ==
  [Task("create", <<>>, "", cont, NoEntry, c) EXCEPT !.step = step]

\* the early returns of submit() in create mode: no tool, blank SKILL.md
CreateRefusal ==
  IF targetToolId = "" THEN "noTool"
  ELSE IF IsBlank(OrEmpty(Get(contentByFile, SKILL_MD))) THEN "blank"
  ELSE ""

\* submit() in create mode; cont says who awaits it
SubmitCreate(cont) ==
  IF CreateRefusal # ""
  THEN /\ unsavedCloseOpen' = IF cont = "close" THEN FALSE ELSE unsavedCloseOpen
       /\ UNCHANGED <<saving, inflight, createLog>>
  ELSE /\ SlotFree
       /\ saving' = TRUE
       /\ inflight' = Append(inflight, CreateTask(cont, Shadow, 1))
       /\ createLog' = <<>>
       /\ UNCHANGED unsavedCloseOpen

\* the Save File / Create Skill button
submit ==
  /\ CanAct /\ NoModal
  /\ ~saving
  /\ ~isReadOnly
  /\ IF mode = "create"
     THEN /\ SubmitCreate("submit")
          /\ UNCHANGED <<open, pendingEntry, unsavedSwitchOpen, selectedFile,
                         contentByFile, loadingFile>>
     ELSE /\ SlotFree
          /\ saving' = TRUE
          /\ IF SaveNeeded
             THEN /\ inflight' = Append(inflight, SaveTask("submit", NoEntry))
                  /\ UNCHANGED <<open, pendingEntry, unsavedSwitchOpen, unsavedCloseOpen,
                                 selectedFile, contentByFile, loadingFile>>
             ELSE SaveContinue("submit", NoEntry, Shadow, inflight)
          /\ UNCHANGED createLog
  /\ Acted(Op("submit", Entry(selectedFile, FALSE), <<>>,
              IF mode = "create"
              THEN (IF CreateRefusal # "" THEN CreateRefusal ELSE "started")
              ELSE IF SaveNeeded THEN "started" ELSE "clean"))
  /\ UNCHANGED <<mode, editorUiMode, entries, savedByFile, dirtyFiles, collapsedDirs,
                 disk, deleteTarget, rawInput, skills,
                 groupedSkills, market, root, targetToolId, app>>

\* Save in the "unsaved changes" dialog that guards closing
onUnsavedSaveAndClose ==
  /\ unsavedCloseOpen /\ opsLeft > 0
  /\ IF mode = "edit"
     THEN /\ IF SaveNeeded
             THEN /\ SlotFree
                  /\ saving' = TRUE
                  /\ inflight' = Append(inflight, SaveTask("close", NoEntry))
                  /\ UNCHANGED <<open, pendingEntry, unsavedSwitchOpen, unsavedCloseOpen,
                                 selectedFile, contentByFile, loadingFile>>
             ELSE /\ SaveContinue("close", NoEntry, Shadow, inflight)
                  /\ UNCHANGED saving
          /\ UNCHANGED createLog
     ELSE /\ SubmitCreate("close")
          /\ UNCHANGED <<open, pendingEntry, unsavedSwitchOpen, selectedFile,
                         contentByFile, loadingFile>>
  /\ Acted(Op("closeSave", Entry(selectedFile, FALSE), <<>>,
              IF mode = "edit" THEN (IF SaveNeeded THEN "started" ELSE "clean")
              ELSE IF CreateRefusal # "" THEN CreateRefusal
              ELSE "started"))
  /\ UNCHANGED <<mode, editorUiMode, entries, savedByFile, dirtyFiles, collapsedDirs,
                 disk, deleteTarget, rawInput, skills,
                 groupedSkills, market, root, targetToolId, app>>

\* one command of "Create Skill" answers
CreateStepDone(i, ok) ==
  /\ i \in 1..Len(inflight)
  /\ inflight[i].kind = "create"
  /\ LET t == inflight[i]
         calls == CreateCalls(t.c)
     IN /\ IF ok
           THEN /\ createLog' = Append(createLog, calls[t.step])
                /\ IF t.step < Len(calls)
                   THEN /\ inflight' = Append(RemoveAt(inflight, i),
                                              CreateTask(t.cont, t.c, t.step + 1))
                        /\ UNCHANGED open
                   ELSE /\ open' = FALSE
                        /\ inflight' = Append(RemoveAt(inflight, i),
                             RefreshTask(IF t.cont = "close" THEN "closeCreate" ELSE "submit"))
                /\ UNCHANGED <<saving, unsavedCloseOpen>>
           ELSE /\ saving' = FALSE
                /\ unsavedCloseOpen' = IF t.cont = "close" THEN FALSE ELSE unsavedCloseOpen
                /\ inflight' = RemoveAt(inflight, i)
                /\ UNCHANGED <<open, createLog>>
        /\ Completed(Op("createStepDone", Entry(calls[t.step].path, FALSE), <<>>,
                        IF ok THEN "ok" ELSE "backendFail"))
  /\ UNCHANGED <<mode, editorUiMode, entries, selectedFile, contentByFile, savedByFile,
                 dirtyFiles, collapsedDirs, pendingEntry, unsavedSwitchOpen, loadingFile,
                 disk, deleteTarget, rawInput, skills,
                 groupedSkills, market, root, targetToolId, app>>

(***************************************************************************)
(* Moving the whole skill to the Trash, from the header of the editor.     *)
(***************************************************************************)
\* the header's "Move to Trash" button and the confirmation of its dialog: onDelete
onDelete ==
  /\ CanAct /\ NoModal
  /\ mode = "edit"
  /\ SlotFree
  /\ inflight' = Append(inflight, Task("deleteSkill", <<>>, "", "none", NoEntry, Shadow))
  /\ Acted(Op("deleteSkill", NoEntry, <<>>, "started"))
  /\ UNCHANGED <<open, mode, editorUiMode, entries, selectedFile, contentByFile,
                 savedByFile, dirtyFiles, collapsedDirs, pendingEntry, unsavedSwitchOpen,
                 unsavedCloseOpen, loadingFile, saving, disk, createLog, deleteTarget, rawInput, skills,
                 groupedSkills, market, root, targetToolId, app>>

\* delete_skill answers; on success onOpenChange(false), then onSaved()
DeleteSkillDone(i, ok) ==
  /\ i \in 1..Len(inflight)
  /\ inflight[i].kind = "deleteSkill"
  /\ ok => ~disk.gone
  /\ IF ok
     THEN /\ disk' = DiskDeleteSkill(disk)
          /\ open' = FALSE
          /\ inflight' = Append(RemoveAt(inflight, i), RefreshTask("none"))
     ELSE /\ inflight' = RemoveAt(inflight, i)
          /\ UNCHANGED <<disk, open>>
  /\ Completed(Op("deleteSkillDone", NoEntry, <<>>, IF ok THEN "ok" ELSE "backendFail"))
  /\ UNCHANGED <<mode, editorUiMode, entries, selectedFile, contentByFile, savedByFile,
                 dirtyFiles, collapsedDirs, pendingEntry, unsavedSwitchOpen,
                 unsavedCloseOpen, loadingFile, saving, createLog, deleteTarget, rawInput, skills,
                 groupedSkills, market, root, targetToolId, app>>

(***************************************************************************)
(* Dashboard refresh: new `tools` re-run the opening effect.               *)
(***************************************************************************)
\* the Refresh button or Cmd/Ctrl+Shift+R, while the editor is open
Refresh ==
  /\ CanAct
  /\ SlotFree
  /\ inflight' = Append(inflight, RefreshTask("none"))
  /\ Acted(Op("refresh", NoEntry, <<>>, "started"))
  /\ UNCHANGED <<open, mode, editorUiMode, entries, selectedFile, contentByFile,
                 savedByFile, dirtyFiles, collapsedDirs, pendingEntry, unsavedSwitchOpen,
                 unsavedCloseOpen, loadingFile, saving, disk, createLog, deleteTarget, rawInput, skills,
                 groupedSkills, market, root, targetToolId, app>>

\* get_dashboard_data answers
RefreshDone(i, ok) ==
  /\ i \in 1..Len(inflight)
  /\ inflight[i].kind = "refresh"
  /\ LET t == inflight[i]
     IN /\ IF ok /\ open
           THEN OpenEffect(mode, RemoveAt(inflight, i))
           ELSE /\ inflight' = RemoveAt(inflight, i)
                /\ UNCHANGED <<entries, selectedFile, contentByFile, savedByFile,
                               dirtyFiles, collapsedDirs>>
        /\ saving' = IF t.cont \in {"submit", "closeCreate"} THEN FALSE ELSE saving
        /\ unsavedCloseOpen' = IF t.cont = "closeCreate" THEN FALSE ELSE unsavedCloseOpen
        /\ Completed(Op("refreshDone", NoEntry, <<>>, IF ok THEN "ok" ELSE "backendFail"))
  /\ UNCHANGED <<open, mode, editorUiMode, pendingEntry, unsavedSwitchOpen, loadingFile,
                 disk, createLog, deleteTarget, rawInput, skills,
                 groupedSkills, market, root, targetToolId, app>>

\* the Mode menu of the header
setEditorUiMode(m) ==
  /\ CanAct /\ NoModal
  /\ mode = "edit"
  /\ m # editorUiMode
  /\ editorUiMode' = m
  /\ Acted(Op("setMode", NoEntry, <<>>, m))
  /\ UNCHANGED <<open, mode, entries, selectedFile, contentByFile, savedByFile,
                 dirtyFiles, collapsedDirs, pendingEntry, unsavedSwitchOpen,
                 unsavedCloseOpen, loadingFile, saving, inflight, disk, createLog, deleteTarget, rawInput, skills,
                 groupedSkills, market, root, targetToolId, app>>

(***************************************************************************)
(* The editor, driven by a user with a bounded number of actions.          *)
(***************************************************************************)
FolderInputs == {<<"e">>, <<".", ".", "/", "e">>}
MarkdownInputs == {<<"b">>, <<"e", "/", "b">>}
RenameInputs == {<<"f">>, SKILL_MD, <<"e", "/", "f">>, <<".", ".">>}

UserAction ==
  \/ \E v \in Texts : Edit(v)
  \/ \E i \in 1..Len(entries) : onSelectEntry(i)
  \/ onUnsavedSwitchCancel
  \/ onUnsavedDiscardAndSwitch
  \/ onUnsavedSaveAndSwitch
  \/ onRequestClose
  \/ onUnsavedCloseCancel
  \/ onUnsavedDiscardAndClose
  \/ onUnsavedSaveAndClose
  \/ \E raw \in FolderInputs : createFolder(raw)
  \/ \E raw \in MarkdownInputs : createMarkdownEntry(raw)
  \/ \E i \in 1..Len(entries), raw \in RenameInputs : renameEntry(i, raw)
  \/ \E i \in 1..Len(entries) : requestDeleteEntry(i)
  \/ cancelDeleteEntry
  \/ deleteFile
  \/ deleteEmptyFolder
  \/ submit
  \/ onDelete
  \/ Refresh
  \/ \E m \in {"view", "edit"} : setEditorUiMode(m)

Answer ==
  \E i \in 1..Len(inflight), ok \in BOOLEAN :
    \/ ListDone(i, ok)
    \/ ReadDone(i, ok)
    \/ LoadDone(i, ok)
    \/ SaveDone(i, ok)
    \/ MkdirDone(i, ok)
    \/ RenameDone(i, ok)
    \/ DeleteFileDone(i, ok)
    \/ RmdirDone(i, ok)
    \/ DeleteSkillDone(i, ok)
    \/ CreateStepDone(i, ok)
    \/ RefreshDone(i, ok)

Next ==
  \/ \E m \in {"create", "edit"}, dm \in {"view", "edit"} : Open(m, dm)
  \/ UserAction
  \/ Answer

Spec == Init /\ [][Next]_vars


(***************************************************************************)
(* Properties of the editor.                                               *)
(***************************************************************************)
\* the step just taken was a run of the named handler
Ran(kind) == lastOp'.kind = kind

\* C1: in edit mode the "unsaved changes" dialog that guards closing lets the
\* editor go from open to closed only by Discard or by Save; when it closes by
\* Save no file is left in dirtyFiles; Cancel leaves the editor open with the
\* content buffers and dirty markers as they were.  (An editor whose whole
\* skill has just been moved to the trash closes without the dialog.)
C1_CloseBySaveLeavesNothingDirty ==
  [][(unsavedCloseOpen /\ mode = "edit" /\ open) =>
       /\ ~open' => \/ Ran("closeDiscard")
                    \/ Ran("closeSave")
                    \/ (Ran("saveDone") /\ lastOp'.result = "close")
                    \/ Ran("deleteSkillDone")
       /\ (~open' /\ (Ran("closeSave") \/ Ran("saveDone"))) => dirtyFiles' = {}
       /\ Ran("closeCancel") =>
            open' /\ contentByFile' = contentByFile /\ dirtyFiles' = dirtyFiles
    ]_vars

\* C1, the part that holds: the dialog closes the editor only by Discard or Save,
\* and Cancel keeps the editor open with buffers and dirty markers intact.
C1_CloseOnlyByDiscardOrSave ==
  [][(unsavedCloseOpen /\ mode = "edit" /\ open) =>
       /\ ~open' => \/ Ran("closeDiscard")
                    \/ Ran("closeSave")
                    \/ (Ran("saveDone") /\ lastOp'.result = "close")
                    \/ Ran("deleteSkillDone")
       /\ Ran("closeCancel") =>
            open' /\ contentByFile' = contentByFile /\ dirtyFiles' = dirtyFiles
    ]_vars

\* the editor has just been closed by Save of the dialog while a file is dirty
C1_ClosedBySaveWhileDirty ==
  /\ mode = "edit" /\ ~open
  /\ lastOp.kind \in {"closeSave", "saveDone"}
  /\ dirtyFiles # {}

\* C2: in edit mode, selecting a file other than the dirty active file leaves
\* selectedFile alone and opens the Save/Discard/Cancel dialog with that entry
\* pending; while the dialog is open selectedFile becomes the pending entry only
\* by Discard (buffer reverted, file clean) or by Save once saveCurrentFile has
\* succeeded; Cancel and a failed save change neither selectedFile, nor the
\* buffers, nor the dirty markers.
C2_SwitchOnlyAfterDecision ==
  [][/\ (Ran("select") /\ mode = "edit" /\ ~lastOp'.entry.isDir
           /\ lastOp'.entry.relativePath # selectedFile /\ selectedFile \in dirtyFiles) =>
          /\ selectedFile' = selectedFile
          /\ unsavedSwitchOpen'
          /\ pendingEntry' = lastOp'.entry
          /\ contentByFile' = contentByFile /\ dirtyFiles' = dirtyFiles
     /\ (unsavedSwitchOpen /\ mode = "edit" /\ selectedFile' # selectedFile
           /\ selectedFile' = pendingEntry.relativePath) =>
          \/ /\ Ran("switchDiscard")
             /\ selectedFile \notin dirtyFiles'
             /\ OrEmpty(Get(contentByFile', selectedFile))
                  = OrEmpty(Get(savedByFile, selectedFile))
          \/ /\ Ran("saveDone") /\ lastOp'.result = "switch"
             /\ selectedFile \notin dirtyFiles'
          \/ /\ Ran("switchSave") /\ selectedFile \notin dirtyFiles
     /\ (unsavedSwitchOpen /\ mode = "edit"
           /\ (Ran("switchCancel") \/ (Ran("saveDone") /\ lastOp'.result = "backendFail"))) =>
          /\ selectedFile' = selectedFile
          /\ contentByFile' = contentByFile
          /\ dirtyFiles' = dirtyFiles
    ]_vars

\* the dialog has been answered with Save and the save has failed
C2_FailedSaveKeepsDialog ==
  /\ mode = "edit" /\ unsavedSwitchOpen
  /\ lastOp.kind = "saveDone" /\ lastOp.result = "backendFail"
  /\ selectedFile \in dirtyFiles
  /\ pendingEntry # NoEntry

\* the paths a buffer, a snapshot or a dirty marker exists for
TrackedFiles == Keys(contentByFile) \cup Keys(savedByFile) \cup dirtyFiles

\* C3: as long as no two operations have overlapped, a file is in dirtyFiles
\* exactly when its buffer differs from its saved snapshot (a missing value
\* counting as the empty string).
C3_DirtyIffDiffers ==
  (inflight = <<>> /\ ~overlap) =>
    \A f \in TrackedFiles :
      f \in dirtyFiles <=> OrEmpty(Get(contentByFile, f)) # OrEmpty(Get(savedByFile, f))

\* C4: after save_skill_entry has succeeded for a file, the file is still dirty
\* or its buffer equals what was written.
C4_CleanOnlyWhenWritten ==
  [][(Ran("saveDone") /\ lastOp'.result # "backendFail" /\ Len(inflight) = 1) =>
       LET t == inflight[1]
       IN \/ t.path \in dirtyFiles'
          \/ OrEmpty(Get(contentByFile', t.path)) = t.content
    ]_vars


\* the path an entry at p is expected at once old has been renamed to new
Moved(old, isDir, new, p) ==
  IF p = old THEN new
  ELSE IF isDir /\ Len(p) > Len(old) /\ SubSeq(p, 1, Len(old) + 1) = old \o <<"/">>
  THEN new \o SubSeq(p, Len(old) + 1, Len(p))
  ELSE p

\* the step just taken applied a rename to the editor state
RenameApplied ==
  \/ Ran("rename") /\ lastOp'.result = "ok"
  \/ Ran("renameDone") /\ lastOp'.result = "ok"

\* the normalized target of the rename just applied
RenamedTo ==
  IF Ran("renameDone") THEN lastOp'.raw
  ELSE RenameTarget(entries, lastOp'.entry, lastOp'.raw).normalized

\* C5: after an accepted rename of a directory D to D2 every entry that was at D
\* or under D/ is present with the prefix replaced by D2, every other entry is
\* present unchanged, and the number of entries is the same.
C5_RenameKeepsEveryEntry ==
  [][(RenameApplied /\ lastOp'.entry.isDir) =>
       /\ Len(entries') = Len(entries)
       /\ \A i \in 1..Len(entries) :
            \E j \in 1..Len(entries') :
              /\ entries'[j].isDir = entries[i].isDir
              /\ entries'[j].relativePath =
                   Moved(lastOp'.entry.relativePath, TRUE, RenamedTo, entries[i].relativePath)
    ]_vars

\* C6: a rename carries every buffer, snapshot, dirty marker, collapsed marker
\* and the selection from p to the remapped p, values unchanged.
C6_RenameRemapsShadowState ==
  [][RenameApplied =>
       LET old == lastOp'.entry.relativePath
           dir == lastOp'.entry.isDir
           new == RenamedTo
           m(p) == Moved(old, dir, new, p)
       IN /\ \A p \in Keys(contentByFile) :
               Get(contentByFile', m(p)) = Get(contentByFile, p)
          /\ \A p \in Keys(savedByFile) :
               Get(savedByFile', m(p)) = Get(savedByFile, p)
          /\ dirtyFiles' = {m(p) : p \in dirtyFiles}
          /\ collapsedDirs' = {m(p) : p \in collapsedDirs}
          /\ selectedFile' = m(selectedFile)
          /\ Cardinality(Keys(contentByFile')) = Cardinality(Keys(contentByFile))
          /\ Cardinality(dirtyFiles') = Cardinality(dirtyFiles)
    ]_vars

\* the segments of a raw input: split at both kinds of separator
Segments(raw) == Split(BackslashesToSlashes(Trim(raw)))

HasDotDotSegment(raw) ==
  \E i \in 1..Len(Segments(raw)) : Segments(raw)[i] = <<".", ".">>

\* C7: an input with a `..` segment is rejected by normalizeRelativePath and
\* ensureMarkdownPath, and createFolder, createMarkdownEntry and renameEntry
\* given such an input report an invalid path, issue no backend call and leave
\* the editor state and the disk alone.
C7_DotDotRejected ==
  /\ [](HasDotDotSegment(rawInput) =>
          /\ normalizeRelativePath(rawInput) = Null
          /\ ensureMarkdownPath(rawInput) = Null)
  /\ [][((Ran("createFolder") \/ Ran("createMarkdown") \/ Ran("rename"))
           /\ HasDotDotSegment(lastOp'.raw)) =>
          /\ lastOp'.result = "invalid"
          /\ inflight' = inflight
          /\ Shadow' = Shadow
          /\ disk' = disk
       ]_vars

\* an input with a `..` segment behind a separator has been refused
C7_DotDotTried ==
  /\ lastOp.kind \in {"createFolder", "createMarkdown", "rename"}
  /\ HasDotDotSegment(lastOp.raw)
  /\ Len(lastOp.raw) > 2
  /\ lastOp.result = "invalid"

\* C8: in edit mode, when the backend call of create-directory, rename,
\* delete-file or delete-empty-directory fails, and nothing else ran meanwhile,
\* entries and the shadow state are what they were when the operation was
\* requested.
C8_FailedCallLeavesNoTrace ==
  [][(mode = "edit" /\ ~overlap /\ Len(inflight) = 1 /\ lastOp'.result = "backendFail"
        /\ (Ran("mkdirDone") \/ Ran("renameDone") \/ Ran("deleteFileDone")
              \/ Ran("rmdirDone"))) =>
       Shadow' = inflight[1].c
    ]_vars

\* the path a rename of entry to the raw name asks for, null when it is invalid
RequestedPath(entry, raw) ==
  LET parent == normalizeParent(entry.relativePath)
  IN normalizeRelativePath(IF parent # <<>> THEN parent \o <<"/">> \o Trim(raw)
                           ELSE Trim(raw))

\* C9: a rename that asks for the path of an existing entry issues no backend
\* call and leaves entries, the shadow state and the disk unchanged; it is
\* reported as a conflict, unless the name typed is the entry's own name, which
\* is dropped silently.
C9_RenameToExistingRefused ==
  [][(Ran("rename") /\ Trim(lastOp'.raw) # <<>>
        /\ RequestedPath(lastOp'.entry, lastOp'.raw) # Null
        /\ HasPath(entries, RequestedPath(lastOp'.entry, lastOp'.raw))) =>
       /\ \/ lastOp'.result = "exists"
          \/ /\ lastOp'.result = "noop"
             /\ Trim(lastOp'.raw) = basename(lastOp'.entry.relativePath)
       /\ inflight' = inflight
       /\ Shadow' = Shadow
       /\ disk' = disk
    ]_vars

\* a rename onto an entry of the other kind has been refused
C9_ConflictAcrossKinds ==
  /\ lastOp.kind = "rename" /\ lastOp.result = "exists"
  /\ \E i \in 1..Len(entries) :
       /\ entries[i].isDir # lastOp.entry.isDir
       /\ entries[i].relativePath # lastOp.entry.relativePath
       /\ entries[i].relativePath = RequestedPath(lastOp.entry, lastOp.raw)

HasDescendant(list, dir) ==
  \E i \in 1..Len(list) :
    /\ Len(list[i].relativePath) > Len(dir) + 1
    /\ SubSeq(list[i].relativePath, 1, Len(dir) + 1) = dir \o <<"/">>

\* C10: Delete Folder on a folder with a descendant entry is refused, sends
\* nothing to the backend and leaves the tree alone; no folder that has a
\* descendant entry is taken out of the tree by Delete Folder; Delete Folder on
\* a folder without descendants is never refused and takes the folder out of
\* the tree (in edit mode once the backend, which then finds an empty existing
\* directory, has answered).
C10_DeleteFolderOnlyWhenEmpty ==
  [][/\ (Ran("deleteFolder") /\ HasDescendant(entries, deleteTarget.relativePath)) =>
          /\ lastOp'.result = "refused"
          /\ inflight' = inflight /\ entries' = entries /\ disk' = disk
     /\ ((Ran("deleteFolder") \/ Ran("rmdirDone"))
           /\ HasDir(entries, lastOp'.entry.relativePath)
           /\ HasDescendant(entries, lastOp'.entry.relativePath)) =>
          HasDir(entries', lastOp'.entry.relativePath)
     /\ (Ran("deleteFolder") /\ ~HasDescendant(entries, deleteTarget.relativePath)) =>
          /\ lastOp'.result # "refused"
          /\ mode = "create" => ~HasDir(entries', deleteTarget.relativePath)
          /\ (mode = "edit" /\ ~overlap') =>
               DiskCanDeleteEmptyDir(disk, deleteTarget.relativePath)
     /\ (Ran("rmdirDone") /\ lastOp'.result = "ok") =>
          ~HasDir(entries', lastOp'.entry.relativePath)
    ]_vars

\* the files and directories of the skill that the step took off the disk
LostFiles == {f \in disk.files : f \notin disk'.files}
LostDirs == {p \in disk.dirs : p \notin disk'.dirs}

DeleteAnswered ==
  (Ran("deleteFileDone") \/ Ran("rmdirDone") \/ Ran("deleteSkillDone")) /\ lastOp'.result = "ok"

UserKinds ==
  {"edit", "select", "switchCancel", "switchDiscard", "switchSave", "requestClose",
   "closeCancel", "closeDiscard", "closeSave", "createFolder", "createMarkdown", "rename",
   "requestDelete", "cancelDelete", "deleteFile", "deleteFolder", "submit", "deleteSkill",
   "refresh", "setMode"}

\* save_skill_entry, create_skill_dir, rename_skill_entry, delete_skill_entry,
\* delete_skill_empty_dir, delete_skill
MutationKinds == {"save", "mkdir", "rename", "deleteFile", "rmdir", "deleteSkill"}

IssuedMutation ==
  /\ inflight' # inflight
  /\ inflight' # <<>>
  /\ inflight'[Len(inflight')].kind \in MutationKinds

\* C12: while the editor is open on an existing skill in View mode, no user
\* action issues a backend mutation, and no user action changes the content
\* buffer of a file or the set of dirty files, also when the mode was switched
\* to View while a file was dirty.
C12_ViewModeIsReadOnly ==
  [][(open /\ isReadOnly /\ lastOp'.kind \in UserKinds) =>
       /\ ~IssuedMutation
       /\ dirtyFiles' = dirtyFiles
       /\ \A f \in Keys(contentByFile) :
            Has(contentByFile', f) /\ Get(contentByFile', f) = Get(contentByFile, f)
    ]_vars

\* in View mode, Save of the "unsaved changes" dialog has sent save_skill_entry
C12_SavedInViewMode ==
  /\ open /\ isReadOnly
  /\ lastOp.kind = "switchSave"
  /\ \E i \in 1..Len(inflight) : inflight[i].kind = "save"

(***************************************************************************)
(* One dialog input, drawn from every string over InputChars, given to the *)
(* three handlers that take a path.                                        *)
(***************************************************************************)
RECURSIVE Strings(_)
Strings(n) ==
  IF n = 0 THEN {<<>>}
  ELSE Strings(n - 1) \cup {Append(s, ch) : s \in Strings(n - 1), ch \in InputChars}

\* the editor on a draft that holds a folder and a file in it
InitInputCreate ==
  /\ mode = "create"
  /\ editorUiMode = "edit"
  /\ entries = sortEntries(<<Entry(SKILL_MD, FALSE), Entry(<<"a">>, TRUE),
                             Entry(<<"a", "/", "a", ".", "m", "d">>, FALSE)>>)
  /\ selectedFile = <<"a", "/", "a", ".", "m", "d">>
  /\ contentByFile = <<[k |-> SKILL_MD, v |-> DEFAULT_CONTENT],
                       [k |-> <<"a", "/", "a", ".", "m", "d">>, v |-> ""]>>
  /\ savedByFile = contentByFile

\* the editor on the installed skill, once its files have been listed and read
InitInputEdit ==
  /\ mode = "edit"
  /\ editorUiMode = "edit"
  /\ entries = sortEntries(DiskList(InitDisk))
  /\ selectedFile = SKILL_MD
  /\ contentByFile = <<[k |-> SKILL_MD, v |-> DEFAULT_CONTENT]>>
  /\ savedByFile = contentByFile

InitInput ==
  /\ rawInput \in Strings(MaxLen)
  /\ InitViews
  /\ open = TRUE
  /\ InitInputCreate \/ InitInputEdit
  /\ dirtyFiles = {}
  /\ collapsedDirs = {}
  /\ pendingEntry = NoEntry
  /\ unsavedSwitchOpen = FALSE
  /\ unsavedCloseOpen = FALSE
  /\ loadingFile = FALSE
  /\ saving = FALSE
  /\ inflight = <<>>
  /\ disk = InitDisk
  /\ lastOp = Op("init", NoEntry, <<>>, "")
  /\ overlap = FALSE
  /\ createLog = <<>>
  /\ deleteTarget = NoEntry
  /\ targetToolId = DefaultToolId
  /\ opsLeft = 1

NextInput ==
  \/ createFolder(rawInput)
  \/ createMarkdownEntry(rawInput)
  \/ \E i \in 1..Len(entries) : renameEntry(i, rawInput)
  \/ \E i \in 1..Len(inflight), ok \in BOOLEAN : MkdirDone(i, ok)
  \/ \E i \in 1..Len(inflight), ok \in BOOLEAN : RenameDone(i, ok)

SpecInput == InitInput /\ [][NextInput]_vars

(***************************************************************************)
(* sortEntries on its own: one call on a list of entries drawn from a      *)
(* small tree.  Lists with an entry whose parent is missing, and lists     *)
(* that hold the same entry twice, are among them: both are lists the      *)
(* editor's handlers hand to sortEntries when two backend calls overlap.   *)
(***************************************************************************)
MaxEntries == 4

SortPaths == {<<"a">>, <<"b">>, <<"a", "/", "a">>, <<"a", "/", "b">>}

SortEntry == {Entry(p, d) : p \in SortPaths, d \in BOOLEAN}

RECURSIVE EntryLists(_)
EntryLists(n) ==
  IF n = 0 THEN {<<>>}
  ELSE EntryLists(n - 1) \cup {Append(l, e) : l \in EntryLists(n - 1), e \in SortEntry}

InitSort ==
  /\ entries \in EntryLists(MaxEntries)
  /\ InitViews
  /\ open = TRUE /\ mode = "create" /\ editorUiMode = "edit"
  /\ selectedFile = SKILL_MD
  /\ contentByFile = <<>> /\ savedByFile = <<>>
  /\ dirtyFiles = {} /\ collapsedDirs = {}
  /\ pendingEntry = NoEntry /\ deleteTarget = NoEntry
  /\ unsavedSwitchOpen = FALSE /\ unsavedCloseOpen = FALSE
  /\ loadingFile = FALSE /\ saving = FALSE
  /\ inflight = <<>> /\ disk = InitDisk
  /\ lastOp = Op("init", NoEntry, <<>>, "")
  /\ overlap = FALSE /\ createLog = <<>> /\ rawInput = <<>>
  /\ targetToolId = DefaultToolId
  /\ opsLeft = 1

\* setEntries(sortEntries(nextEntries)); lastOp.raw keeps the list that was given
SortStep ==
  /\ opsLeft > 0
  /\ entries' = sortEntries(entries)
  /\ lastOp' = Op("sort", NoEntry, entries, "ok")
  /\ opsLeft' = opsLeft - 1
  /\ UNCHANGED <<open, mode, editorUiMode, selectedFile, contentByFile, savedByFile,
                 dirtyFiles, collapsedDirs, pendingEntry, unsavedSwitchOpen,
                 unsavedCloseOpen, loadingFile, saving, inflight, disk, overlap,
                 createLog, deleteTarget, rawInput, skills,
                 groupedSkills, market, root, targetToolId, app>>

SpecSort == InitSort /\ [][SortStep]_vars

Siblings(list, i, j) ==
  normalizeParent(list[i].relativePath) = normalizeParent(list[j].relativePath)

\* among the children of one parent: directories first, then names ascending
SiblingsInOrder(list) ==
  \A i, j \in 1..Len(list) :
    (i < j /\ Siblings(list, i, j)) =>
      /\ list[j].isDir => list[i].isDir
      /\ list[i].isDir = list[j].isDir =>
           localeCompare(basename(list[i].relativePath), basename(list[j].relativePath)) <= 0

\* the entries below the directory at position i sit right behind it
SubtreeFollows(list) ==
  \A i \in 1..Len(list) :
    list[i].isDir =>
      \E k \in 0..Len(list) :
        {j \in 1..Len(list) : Under(list[j].relativePath, list[i].relativePath)}
          = (i + 1)..(i + k)

AncestorsFirst(list) ==
  \A j \in 1..Len(list) :
    \A p \in Ancestors(list[j].relativePath) :
      \E i \in 1..(j - 1) : list[i] = Entry(p, TRUE)

\* C13: the output of sortEntries lists, among the children of one parent,
\* every directory before every file and the names of each kind in ascending
\* order (the order of localeCompare); each directory is immediately followed
\* by its whole subtree, so every entry comes after all its ancestor
\* directories; and sorting the output again returns the same list.
C13_SortedListIsWellFormed ==
  lastOp.kind = "sort" =>
    /\ SiblingsInOrder(entries)
    /\ SubtreeFollows(entries)
    /\ AncestorsFirst(entries)
    /\ sortEntries(entries) = entries

\* a list with the directory a twice and a file in it has been sorted
C13_SortedWithRepeatedDirectory ==
  /\ lastOp.kind = "sort"
  /\ Len(SelectSeq(lastOp.raw, LAMBDA e : e = Entry(<<"a">>, TRUE))) = 2
  /\ Entry(<<"a", "/", "b">>, FALSE) \in {entries[i] : i \in 1..Len(entries)}

(***************************************************************************)
(* SkillsView: groupedSkills, the useMemo that merges the skills of the    *)
(* dashboard into one card per name.                                       *)
(***************************************************************************)
MaxSkills == 3

SkillInfo(name, description, path, source) ==
  [name |-> name, description |-> description, path |-> path, source |-> source,
   enabledFor |-> <<source>>]

\* a key without the trim
GroupKey_NoTrim(skill) == ToLowerCase(skill.name)

\* skill.name.trim().toLowerCase()
GroupKey(skill) == ToLowerCase(Trim(skill.name))

\* a key that is set again moves to the end of the Map
RECURSIVE GroupMap_KeyMovesToEnd(_)
GroupMap_KeyMovesToEnd(list) ==
  IF list = <<>> THEN <<>>
  ELSE LET map == GroupMap_KeyMovesToEnd(SubSeq(list, 1, Len(list) - 1))
           skill == list[Len(list)]
           key == GroupKey(skill)
       IN IF Has(map, key)
          THEN Append(Del(map, key), [k |-> key, v |-> Append(Get(map, key), skill)])
          ELSE Put(map, key, <<skill>>)

\* the Map the for loop fills: existing.push(skill) or map.set(key, [skill])
RECURSIVE GroupMap(_)
GroupMap(list) ==
  IF list = <<>> THEN <<>>
  ELSE LET map == GroupMap(SubSeq(list, 1, Len(list) - 1))
           skill == list[Len(list)]
           key == GroupKey(skill)
       IN IF Has(map, key)
          THEN Put(map, key, Append(Get(map, key), skill))
          ELSE Put(map, key, <<skill>>)

\* a comparator that looks at the path only
compareSkills_PathOnly(a, b) == localeCompare(a.path, b.path)

\* a.source.localeCompare(b.source) || a.path.localeCompare(b.path)
compareSkills(a, b) ==
  LET bySource == localeCompare(a.source, b.source)
  IN IF bySource # 0 THEN bySource ELSE localeCompare(a.path, b.path)

\* [...variants].sort(...), a stable sort
RECURSIVE InsertSkill(_, _)
InsertSkill(sorted, s) ==
  IF sorted = <<>> THEN <<s>>
  ELSE IF compareSkills(Head(sorted), s) <= 0
       THEN <<Head(sorted)>> \o InsertSkill(Tail(sorted), s)
       ELSE <<s>> \o sorted

RECURSIVE SortSkills(_)
SortSkills(list) ==
  IF list = <<>> THEN <<>>
  ELSE InsertSkill(SortSkills(SubSeq(list, 1, Len(list) - 1)), list[Len(list)])

\* Array.from(new Set(sorted.flatMap(item => item.enabledFor))).sort(localeCompare)
RECURSIVE SortedToolIds(_)
SortedToolIds(ids) ==
  IF ids = {} THEN <<>>
  ELSE LET least == CHOOSE x \in ids : \A y \in ids : localeCompare(x, y) <= 0
       IN <<least>> \o SortedToolIds(ids \ {least})

\* the descriptions as they are, untrimmed
Descriptions_Untrimmed(sorted) == {sorted[i].description : i \in 1..Len(sorted)}

\* new Set(sorted.map(item => item.description.trim()))
Descriptions(sorted) == {Trim(sorted[i].description) : i \in 1..Len(sorted)}

\* the object one Map value is turned into
SkillGroup(variants) ==
  LET sorted == SortSkills(variants)
  IN [primary |-> sorted[1],
      enabledFor |-> SortedToolIds(UNION {{sorted[i].enabledFor[j] :
                                             j \in 1..Len(sorted[i].enabledFor)} :
                                           i \in 1..Len(sorted)}),
      hasDescriptionDiff |-> Cardinality(Descriptions(sorted)) > 1,
      variantCount |-> Len(sorted)]

\* Array.from(map.values()).map(...)
GroupedSkillsOf(list) ==
  LET map == GroupMap(list) IN [i \in 1..Len(map) |-> SkillGroup(map[i].v)]

SkillNames == {<<"a">>, <<" ", "A">>, <<"b">>}
SkillDescriptions == {<<"x">>, <<"x", " ">>, <<"e">>}
SkillSources == {<<"a">>, <<"b">>}
SkillPaths == {<<"/", "a">>, <<"/", "B">>}

\* get_dashboard_data: each tool lists each of its skill directories once
RECURSIVE SkillLists(_)
SkillLists(n) ==
  IF n = 0 THEN {<<>>}
  ELSE SkillLists(n - 1) \cup
       {Append(l, SkillInfo(nm, d, p, s)) :
          l \in SkillLists(n - 1), nm \in SkillNames, d \in SkillDescriptions,
          p \in SkillPaths, s \in SkillSources}

DistinctPlaces(l) ==
  \A i, j \in 1..Len(l) : (l[i].source = l[j].source /\ l[i].path = l[j].path) => i = j

InitGroup ==
  /\ InitEditor
  /\ skills \in {l \in SkillLists(MaxSkills) : DistinctPlaces(l)}
  /\ groupedSkills = <<>>
  /\ market = InitMarket
  /\ root = InitRoot
  /\ app = InitApp
  /\ opsLeft = 1
  /\ rawInput = <<>>

\* SkillsView renders with the skills of the dashboard
RenderSkillsView ==
  /\ opsLeft > 0
  /\ groupedSkills' = GroupedSkillsOf(skills)
  /\ lastOp' = Op("groupedSkills", NoEntry, <<>>, "ok")
  /\ opsLeft' = opsLeft - 1
  /\ UNCHANGED <<open, mode, editorUiMode, entries, selectedFile, contentByFile,
                 savedByFile, dirtyFiles, collapsedDirs, pendingEntry, unsavedSwitchOpen,
                 unsavedCloseOpen, loadingFile, saving, inflight, disk, overlap,
                 createLog, deleteTarget, rawInput, skills, market, root, targetToolId, app>>

SpecGroup == InitGroup /\ [][RenderSkillsView]_vars

Grouped == lastOp.kind = "groupedSkills"

\* the name of a record, trimmed and in lower case
NormalizedName(skill) == ToLowerCase(Trim(skill.name))

\* the records of the input that belong to the group with primary record p
MembersOf(p) == {i \in 1..Len(skills) : NormalizedName(skills[i]) = NormalizedName(p)}

RECURSIVE SumOfCounts(_)
SumOfCounts(groups) ==
  IF groups = <<>> THEN 0 ELSE Head(groups).variantCount + SumOfCounts(Tail(groups))

\* C14: grouping is a partition of the records: each record is in exactly one
\* group, the group of the records that have its name after trim and
\* lower-casing, each group counts exactly those records, and the counts sum
\* to the number of records.
C14_GroupingIsAPartition ==
  Grouped =>
    /\ \A i \in 1..Len(skills) :
         Cardinality({g \in 1..Len(groupedSkills) : i \in MembersOf(groupedSkills[g].primary)}) = 1
    /\ \A g \in 1..Len(groupedSkills) :
         groupedSkills[g].variantCount = Cardinality(MembersOf(groupedSkills[g].primary))
    /\ SumOfCounts(groupedSkills) = Len(skills)

\* three records in two groups, one group merging names that differ in case
\* and surrounding blanks
C14_MergedAcrossCaseAndBlanks ==
  /\ Grouped
  /\ Len(skills) = 3 /\ Len(groupedSkills) = 2
  /\ \E i, j \in 1..3 : /\ skills[i].name = <<"a">> /\ skills[j].name = <<" ", "A">>
                         /\ MembersOf(skills[i]) = {i, j}

\* a comes no later than b by (source, then path)
PlaceNoLater(a, b) ==
  \/ localeCompare(a.source, b.source) < 0
  \/ (localeCompare(a.source, b.source) = 0 /\ localeCompare(a.path, b.path) <= 0)

\* the orders in which the same records can be encountered
Reorderings(l) ==
  {[i \in 1..Len(l) |-> l[f[i]]] :
     f \in {g \in [1..Len(l) -> 1..Len(l)] : \A i, j \in 1..Len(l) : g[i] = g[j] => i = j}}

PrimariesOf(groups) == {groups[g].primary : g \in 1..Len(groups)}

TrimmedDescriptions(p) == {Trim(skills[i].description) : i \in MembersOf(p)}

\* C16: hasDescriptionDiff of a group is true exactly when its members have at
\* least two distinct descriptions after trimming; descriptions that differ
\* only in surrounding blanks do not set it.
C16_DescriptionDiffIffDistinctTrimmed ==
  Grouped =>
    \A g \in 1..Len(groupedSkills) :
      groupedSkills[g].hasDescriptionDiff
        <=> (\E x, y \in TrimmedDescriptions(groupedSkills[g].primary) : x # y)

\* a group of two whose descriptions differ in a trailing blank only
C16_DifferOnlyInBlanks ==
  /\ Grouped
  /\ \E g \in 1..Len(groupedSkills) :
       /\ groupedSkills[g].variantCount = 2
       /\ ~groupedSkills[g].hasDescriptionDiff
       /\ \E i, j \in MembersOf(groupedSkills[g].primary) :
            skills[i].description # skills[j].description

\* the position at which the name of the group's records is met first
FirstMet(p) == CHOOSE i \in MembersOf(p) : \A j \in MembersOf(p) : i <= j

\* C17: there is exactly one group per distinct name (trimmed, lower case) and
\* the groups come in the order in which their names are first met in the
\* input; the same input always gives the same groups.
C17_OneGroupPerKeyInFirstMetOrder ==
  Grouped =>
    /\ Len(groupedSkills) = Cardinality({NormalizedName(skills[i]) : i \in 1..Len(skills)})
    /\ \A g, h \in 1..Len(groupedSkills) :
         g < h => FirstMet(groupedSkills[g].primary) < FirstMet(groupedSkills[h].primary)
    /\ GroupedSkillsOf(skills) = groupedSkills

\* the first group got a member after the second group had been started
C17_LaterMemberOfFirstGroup ==
  /\ Grouped
  /\ Len(skills) = 3 /\ Len(groupedSkills) = 2
  /\ NormalizedName(skills[1]) = NormalizedName(skills[3])
  /\ NormalizedName(skills[1]) # NormalizedName(skills[2])
  /\ groupedSkills[1].variantCount = 2

(***************************************************************************)
(* MarketplaceView: the import form, the install dialog, and the import    *)
(* pipeline of the backend behind install_skill_from_github and            *)
(* install_from_registry.  The pipeline is described by the specification  *)
(* only: validate, fetch a snapshot, locate the skill, copy it to a        *)
(* staging area, move it into the Root.                                    *)
(***************************************************************************)
GithubPrefix ==
  <<"h", "t", "t", "p", "s", ":", "/", "/", "g", "i", "t", "h", "u", "b", ".", "c", "o", "m",
    "/">>

\* what can stand in the Repository URL field
RepoUrls ==
  {<<>>,
   GithubPrefix,
   GithubPrefix \o <<"o", "/", "r">>,
   SubSeq(GithubPrefix, 1, 18),
   SubSeq(GithubPrefix, 1, 18) \o <<".", "e", ".", "i", "o", "/", "r">>,
   <<"h", "t", "t", "p", ":", "/", "/">> \o SubSeq(GithubPrefix, 9, 19) \o <<"o", "/", "r">>,
   <<" ">> \o GithubPrefix \o <<"o", "/", "r">>}

SkillPathInputs == {"", "skills/a"}

SearchResult == [source |-> "o/r", skillId |-> "k"]

\* toolOptions and the effect that preselects the first of them
InitMarketView ==
  /\ InitEditor
  /\ skills = <<>> /\ groupedSkills = <<>>
  /\ \E options \in {<<>>, <<"t", "u">>} :
       market = [InitMarket EXCEPT !.toolOptions = options,
                                   !.targetToolId = IF options # <<>> THEN options[1] ELSE ""]
  /\ root = InitRoot
  /\ app = InitApp
  /\ opsLeft = MaxOps
  /\ rawInput = <<>>

installReady == market.toolOptions # <<>>

installDialogOpen == market.dialogSkill # NoSkill

\* a user handler of the view ran; the editor is left alone
MarketActed(op) ==
  /\ lastOp' = op
  /\ opsLeft' = opsLeft - 1
  /\ UNCHANGED <<open, mode, editorUiMode, entries, selectedFile, contentByFile,
                 savedByFile, dirtyFiles, collapsedDirs, pendingEntry, unsavedSwitchOpen,
                 unsavedCloseOpen, loadingFile, saving, disk, overlap, createLog,
                 deleteTarget, rawInput, skills, groupedSkills,
                 targetToolId, app>>

\* a step of the backend or an answer; the editor is left alone
MarketAnswered(op) ==
  /\ lastOp' = op
  /\ UNCHANGED <<open, mode, editorUiMode, entries, selectedFile, contentByFile,
                 savedByFile, dirtyFiles, collapsedDirs, pendingEntry, unsavedSwitchOpen,
                 unsavedCloseOpen, loadingFile, saving, disk, overlap, opsLeft, createLog,
                 deleteTarget, rawInput, skills, groupedSkills,
                 targetToolId, app>>

\* an invoke() of one of the two install commands, at the first step of the pipeline
InstallCall(kind, request) ==
  [kind |-> kind, request |-> request, step |-> "validate", name |-> "", error |-> ""]

\* onInstalled: refresh() of the dashboard, which catches its own errors
OnInstalledCall(cont) ==
  [kind |-> "onInstalled", request |-> cont, step |-> "answer", name |-> "", error |-> ""]

setRepoUrl(url) ==
  /\ opsLeft > 0 /\ ~installDialogOpen
  /\ url # market.repoUrl
  /\ market' = [market EXCEPT !.repoUrl = url]
  /\ MarketActed(Op("setRepoUrl", NoEntry, url, ""))
  /\ UNCHANGED <<inflight, root>>

setSkillPath(path) ==
  /\ opsLeft > 0 /\ ~installDialogOpen
  /\ path # market.skillPath
  /\ market' = [market EXCEPT !.skillPath = path]
  /\ MarketActed(Op("setSkillPath", NoEntry, <<>>, path))
  /\ UNCHANGED <<inflight, root>>

setTargetToolId(id) ==
  /\ opsLeft > 0 /\ ~installDialogOpen
  /\ id # market.targetToolId
  /\ market' = [market EXCEPT !.targetToolId = id]
  /\ MarketActed(Op("setTargetToolId", NoEntry, <<>>, id))
  /\ UNCHANGED <<inflight, root>>

\* a check that accepts every https URL
RepoUrlRefused_AnyHttps(repoUrl) == ~StartsWith(repoUrl, SubSeq(GithubPrefix, 1, 8))

\* !repoUrl.startsWith("https://github.com/")
RepoUrlRefused(repoUrl) == ~StartsWith(repoUrl, GithubPrefix)

\* the "Install from GitHub" button
onSubmit ==
  /\ opsLeft > 0 /\ ~installDialogOpen
  /\ ~market.submitting /\ installReady
  /\ IF market.repoUrl = <<>> \/ market.targetToolId = ""
     THEN /\ MarketActed(Op("onSubmit", NoEntry, market.repoUrl, "required"))
          /\ UNCHANGED <<market, inflight, root>>
     ELSE IF RepoUrlRefused(market.repoUrl)
     THEN /\ MarketActed(Op("onSubmit", NoEntry, market.repoUrl, "notGithub"))
          /\ UNCHANGED <<market, inflight, root>>
     ELSE /\ market' = [market EXCEPT !.submitting = TRUE]
          /\ inflight' = Append(inflight,
                                InstallCall("installGithub",
                                            [repoUrl |-> market.repoUrl,
                                             skillPath |-> IF market.skillPath = ""
                                                           THEN Undefined
                                                           ELSE market.skillPath,
                                             targetToolId |-> market.targetToolId]))
          /\ MarketActed(Op("onSubmit", NoEntry, market.repoUrl, "started"))
          /\ UNCHANGED root

\* the Install button of a search result
openInstallDialog ==
  /\ opsLeft > 0 /\ ~installDialogOpen
  /\ installReady
  /\ market' = [market EXCEPT !.dialogSkill = SearchResult,
                              !.dialogToolId = IF market.toolOptions # <<>>
                                               THEN market.toolOptions[1] ELSE "",
                              !.installPhase = "select",
                              !.installError = ""]
  /\ MarketActed(Op("openInstallDialog", NoEntry, <<>>, ""))
  /\ UNCHANGED <<inflight, root>>

setDialogToolId(id) ==
  /\ opsLeft > 0 /\ installDialogOpen
  /\ market.installPhase = "select"
  /\ id # market.dialogToolId
  /\ market' = [market EXCEPT !.dialogToolId = id]
  /\ MarketActed(Op("setDialogToolId", NoEntry, <<>>, id))
  /\ UNCHANGED <<inflight, root>>

\* Cancel, Done, Close, Escape or a click outside the dialog
closeInstallDialog ==
  /\ opsLeft > 0 /\ installDialogOpen
  /\ IF market.installPhase = "installing"
     THEN UNCHANGED market
     ELSE market' = [market EXCEPT !.dialogSkill = NoSkill]
  /\ MarketActed(Op("closeInstallDialog", NoEntry, <<>>,
                    IF market.installPhase = "installing" THEN "ignored" ELSE "closed"))
  /\ UNCHANGED <<inflight, root>>

\* the Install button (phase select) or the Retry button (phase error)
doInstallFromRegistry ==
  /\ opsLeft > 0 /\ installDialogOpen
  /\ \/ market.installPhase = "select" /\ market.dialogToolId # ""
     \/ market.installPhase = "error"
  /\ IF market.dialogSkill = NoSkill \/ market.dialogToolId = ""
     THEN UNCHANGED <<market, inflight>>
     ELSE /\ market' = [market EXCEPT !.installPhase = "installing"]
          /\ inflight' = Append(inflight,
                                InstallCall("installRegistry",
                                            [source |-> market.dialogSkill.source,
                                             skillId |-> market.dialogSkill.skillId,
                                             targetToolId |-> market.dialogToolId]))
  /\ MarketActed(Op(IF market.installPhase = "error" THEN "retry" ELSE "install",
                    NoEntry, <<>>, "started"))
  /\ UNCHANGED root

\* the allow-list of the pipeline
AllowListed(call) ==
  call.kind = "installGithub" => StartsWith(call.request.repoUrl, GithubPrefix)

Staged(call) == {d \in root.staging : d.owner = call.kind}

\* the copy writes straight into the Root
ImportStepEffect_CopyInPlace(call, ok) ==
  CASE call.step = "validate" ->
         /\ ok <=> AllowListed(call)
         /\ root' = root
    [] call.step = "copy" ->
         root' = [root EXCEPT !.dirs = {d \in root.dirs : d.name # call.name}
                                         \cup {[name |-> call.name, version |-> 2]}]
    [] call.step = "copying" ->
         root' = IF ok
                 THEN [root EXCEPT !.dirs = {d \in root.dirs : d.name # call.name}
                                              \cup {[name |-> call.name, version |-> 1]}]
                 ELSE root
    [] OTHER -> root' = root

\* what one step of the pipeline does to the Root and its staging area;
\* version 1 is the complete imported skill, version 2 a partial copy of it
ImportStepEffect(call, ok) ==
  CASE call.step = "validate" ->
         /\ ok <=> AllowListed(call)
         /\ root' = root
    [] call.step = "copy" ->
         root' = IF ok
                 THEN [root EXCEPT !.staging = root.staging \cup
                                     {[owner |-> call.kind, name |-> call.name, version |-> 2]}]
                 ELSE root
    [] call.step = "copying" ->
         root' = [root EXCEPT !.staging = IF ok
                                          THEN (root.staging \ Staged(call)) \cup
                                               {[owner |-> call.kind, name |-> call.name,
                                                 version |-> 1]}
                                          ELSE root.staging \ Staged(call)]
    [] call.step = "move" ->
         root' = IF ok
                 THEN [dirs |-> {d \in root.dirs : d.name # call.name}
                                  \cup {[name |-> call.name, version |-> 1]},
                       staging |-> root.staging \ Staged(call)]
                 ELSE [root EXCEPT !.staging = root.staging \ Staged(call)]
    [] OTHER -> root' = root

NextStep(step) ==
  CASE step = "validate" -> "fetch" [] step = "fetch" -> "locate" [] step = "locate" -> "copy"
    [] step = "copy" -> "copying" [] step = "copying" -> "move" [] OTHER -> "answer"

\* the backend takes one step of an import; name is the skill directory it locates
ImportStep(i, ok, name) ==
  /\ i \in 1..Len(inflight)
  /\ inflight[i].kind \in {"installGithub", "installRegistry"}
  /\ inflight[i].step # "answer"
  /\ name = "" <=> inflight[i].step # "locate"
  /\ LET call == inflight[i]
     IN /\ ImportStepEffect(call, ok)
        /\ inflight' = [inflight EXCEPT ![i] =
                          [call EXCEPT !.step = IF ok THEN NextStep(call.step) ELSE "answer",
                                       !.name = IF call.step = "locate" /\ ok
                                                THEN name ELSE call.name,
                                       !.error = IF ok THEN "" ELSE call.step]]
        /\ MarketAnswered(Op("importStep", NoEntry, <<>>,
                             IF ok THEN call.step ELSE "failed"))
  /\ UNCHANGED market

\* install_skill_from_github answers
InstallGithubDone(i) ==
  /\ i \in 1..Len(inflight)
  /\ inflight[i].kind = "installGithub" /\ inflight[i].step = "answer"
  /\ IF inflight[i].error = ""
     THEN /\ inflight' = Append(RemoveAt(inflight, i), OnInstalledCall("onSubmit"))
          /\ UNCHANGED market
     ELSE /\ inflight' = RemoveAt(inflight, i)
          /\ market' = [market EXCEPT !.submitting = FALSE]
  /\ MarketAnswered(Op("installGithubDone", NoEntry, inflight[i].request.repoUrl,
                       IF inflight[i].error = "" THEN "ok" ELSE "backendFail"))
  /\ UNCHANGED root

\* a failed install is invoked again without a click
InstallRegistryDone_Reinvokes(i) ==
  /\ i \in 1..Len(inflight)
  /\ inflight[i].kind = "installRegistry" /\ inflight[i].step = "answer"
  /\ IF inflight[i].error = ""
     THEN inflight' = Append(RemoveAt(inflight, i), OnInstalledCall("dialog"))
     ELSE inflight' = Append(RemoveAt(inflight, i),
                             InstallCall("installRegistry", inflight[i].request))
  /\ UNCHANGED market
  /\ MarketAnswered(Op("installRegistryDone", NoEntry, <<>>,
                       IF inflight[i].error = "" THEN "ok" ELSE "backendFail"))
  /\ UNCHANGED root

\* install_from_registry answers
InstallRegistryDone(i) ==
  /\ i \in 1..Len(inflight)
  /\ inflight[i].kind = "installRegistry" /\ inflight[i].step = "answer"
  /\ IF inflight[i].error = ""
     THEN /\ inflight' = Append(RemoveAt(inflight, i), OnInstalledCall("dialog"))
          /\ UNCHANGED market
     ELSE /\ inflight' = RemoveAt(inflight, i)
          /\ market' = [market EXCEPT !.installError = inflight[i].error,
                                      !.installPhase = "error"]
  /\ MarketAnswered(Op("installRegistryDone", NoEntry, <<>>,
                       IF inflight[i].error = "" THEN "ok" ELSE "backendFail"))
  /\ UNCHANGED root

\* onInstalled() returns: finally { setSubmitting(false) }, or setInstallPhase("done")
OnInstalledDone(i) ==
  /\ i \in 1..Len(inflight)
  /\ inflight[i].kind = "onInstalled"
  /\ market' = IF inflight[i].request = "onSubmit"
               THEN [market EXCEPT !.submitting = FALSE]
               ELSE [market EXCEPT !.installPhase = "done"]
  /\ inflight' = RemoveAt(inflight, i)
  /\ MarketAnswered(Op("onInstalledDone", NoEntry, <<>>, inflight[i].request))
  /\ UNCHANGED root

NextMarket ==
  \/ \E url \in RepoUrls : setRepoUrl(url)
  \/ \E path \in SkillPathInputs : setSkillPath(path)
  \/ \E k \in 1..Len(market.toolOptions) : setTargetToolId(market.toolOptions[k])
  \/ onSubmit
  \/ openInstallDialog
  \/ \E k \in 1..Len(market.toolOptions) : setDialogToolId(market.toolOptions[k])
  \/ closeInstallDialog
  \/ doInstallFromRegistry
  \/ \E i \in 1..Len(inflight), ok \in BOOLEAN, name \in {"", "s", "n"} : ImportStep(i, ok, name)
  \/ \E i \in 1..Len(inflight) : InstallGithubDone(i)
  \/ \E i \in 1..Len(inflight) : InstallRegistryDone(i)
  \/ \E i \in 1..Len(inflight) : OnInstalledDone(i)

SpecMarket == InitMarketView /\ [][NextMarket]_vars

\* the URL begins with https://github.com/
IsGithubUrl(url) == Len(url) >= Len(GithubPrefix) /\ SubSeq(url, 1, Len(GithubPrefix)) = GithubPrefix

GithubCalls == {i \in 1..Len(inflight) : inflight[i].kind = "installGithub"}

\* C18: install_skill_from_github is only ever invoked with a repository URL
\* that begins with https://github.com/ and with a target tool; a click on
\* "Install from GitHub" with another URL, an empty URL or no tool is answered
\* with an error message and changes nothing: no call, no change of the form,
\* no change of the Root; and only that button starts such a call.
C18_ImportValidatedBeforeAnyCall ==
  /\ [](\A i \in GithubCalls :
          /\ IsGithubUrl(inflight[i].request.repoUrl)
          /\ inflight[i].request.targetToolId # "")
  /\ [][/\ (Ran("onSubmit") /\ (~IsGithubUrl(market.repoUrl) \/ market.targetToolId = "")) =>
            /\ lastOp'.result \in {"required", "notGithub"}
            /\ inflight' = inflight /\ market' = market /\ root' = root
        /\ (Ran("onSubmit") /\ IsGithubUrl(market.repoUrl) /\ market.targetToolId # "") =>
            lastOp'.result = "started"
        /\ Cardinality(GithubCalls') > Cardinality(GithubCalls) =>
            (Ran("onSubmit") /\ lastOp'.result = "started")
       ]_vars

\* the button was clicked on a URL of a host that only begins like github.com
C18_LookAlikeHostRefused ==
  /\ lastOp.kind = "onSubmit"
  /\ lastOp.result = "notGithub"
  /\ Len(lastOp.raw) > Len(GithubPrefix)
  /\ SubSeq(lastOp.raw, 1, 18) = SubSeq(GithubPrefix, 1, 18)

InstallCalls ==
  {i \in 1..Len(inflight) : inflight[i].kind \in {"installGithub", "installRegistry"}}

\* the invocations the backend has not begun to work on
Invoked == {i \in InstallCalls : inflight[i].step = "validate"}

\* a click on Install, on Retry or on "Install from GitHub" that got past the checks
InstallClick ==
  \/ Ran("install") /\ market.dialogSkill # NoSkill /\ market.dialogToolId # ""
  \/ Ran("retry") /\ market.dialogSkill # NoSkill /\ market.dialogToolId # ""
  \/ Ran("onSubmit") /\ lastOp'.result = "started"

PhaseStep(from, to) == market.installPhase = from /\ market'.installPhase = to

\* C19: an install command is invoked only in the step of a click on Install,
\* Retry or "Install from GitHub", once per click, and never in the step of an
\* answer; while the install dialog is open its phase moves only from select
\* to installing (Install), from installing to done or error (the answer) and
\* from error to installing (Retry); in the error phase the dialog, the phase
\* and the error shown stay as they are until Retry or a close, and a dialog
\* that opens starts in phase select.
C19_NoInstallWithoutAClick ==
  /\ [](market.installPhase = "error" /\ installDialogOpen => market.installError # "")
  /\ [][/\ Cardinality(Invoked') > Cardinality(Invoked) <=> InstallClick
        /\ Cardinality(Invoked') <= Cardinality(Invoked) + 1
        /\ Cardinality(InstallCalls') > Cardinality(InstallCalls) <=> InstallClick
        /\ (installDialogOpen /\ installDialogOpen'
              /\ market'.installPhase # market.installPhase) =>
            \/ PhaseStep("select", "installing") /\ Ran("install")
            \/ PhaseStep("error", "installing") /\ Ran("retry")
            \/ PhaseStep("installing", "done") /\ Ran("onInstalledDone")
            \/ PhaseStep("installing", "error") /\ Ran("installRegistryDone")
        /\ (installDialogOpen /\ market.installPhase = "error"
              /\ ~Ran("retry") /\ ~Ran("closeInstallDialog")) =>
            /\ market'.installPhase = "error"
            /\ market'.installError = market.installError
            /\ market'.dialogSkill = market.dialogSkill
        /\ (~installDialogOpen /\ installDialogOpen') =>
            (Ran("openInstallDialog") /\ market'.installPhase = "select")
       ]_vars

\* Retry was clicked in the error phase and the install is under way again
C19_RetriedAfterFailure ==
  /\ lastOp.kind = "retry"
  /\ market.installPhase = "installing"
  /\ market.installError # ""
  /\ \E i \in InstallCalls : inflight[i].kind = "installRegistry"

PartialCopies == {d \in root.dirs : d.version = 2}

\* call i took a step in which it failed
FailedNow(i) ==
  /\ i \in 1..Len(inflight) /\ Len(inflight') = Len(inflight)
  /\ inflight[i].error = "" /\ inflight'[i].error # ""

\* call i took the step that moves its complete copy into place
MovedIntoPlace(i) ==
  /\ i \in 1..Len(inflight) /\ Len(inflight') = Len(inflight)
  /\ inflight[i].step = "move"
  /\ inflight'[i].step = "answer" /\ inflight'[i].error = ""

MaxCalls == 3      \* commands that may be pending at the same time in SpecLock

MutationCommands ==
  {"save_skill_entry", "create_skill_dir", "rename_skill_entry", "delete_skill_entry"}

SkillDirs == {"s", "n"}

InitLock ==
  /\ InitEditor
  /\ InitViews
  /\ opsLeft = MaxOps
  /\ rawInput = <<>>

\* everything but the pending commands and the saving flag is left alone
LockFrame(op) ==
  /\ lastOp' = op
  /\ UNCHANGED <<open, mode, editorUiMode, entries, selectedFile, contentByFile,
                 savedByFile, dirtyFiles, collapsedDirs, pendingEntry, unsavedSwitchOpen,
                 unsavedCloseOpen, loadingFile, disk, overlap, opsLeft, createLog,
                 deleteTarget, rawInput, skills, groupedSkills, market, root, targetToolId, app>>

\* invoke(command, { path, ... }): the command is handed to the backend
MutationCall(command, path) == [kind |-> command, path |-> path, step |-> "waiting"]

\* a handler of an editor open on the skill at path invokes a command; the
\* Save button is disabled while saving, the tree's menu items are not
InvokeMutation(command, path) ==
  /\ Len(inflight) < MaxCalls
  /\ command = "save_skill_entry" => ~saving
  /\ inflight' = Append(inflight, MutationCall(command, path))
  /\ saving' = IF command = "save_skill_entry" THEN TRUE ELSE saving
  /\ LockFrame(Op("invoke", NoEntry, <<>>, command))

Running(path) == {i \in 1..Len(inflight) : inflight[i].path = path /\ inflight[i].step = "running"}

\* a backend that starts a command whatever else is running
BeginMutation_NoLock(i) ==
  /\ i \in 1..Len(inflight)
  /\ inflight[i].step = "waiting"
  /\ inflight' = [inflight EXCEPT ![i].step = "running"]
  /\ LockFrame(Op("begin", NoEntry, <<>>, inflight[i].kind))
  /\ UNCHANGED saving

\* the backend takes the lock of the skill directory and starts the command
BeginMutation(i) ==
  /\ i \in 1..Len(inflight)
  /\ inflight[i].step = "waiting"
  /\ Running(inflight[i].path) = {}
  /\ inflight' = [inflight EXCEPT ![i].step = "running"]
  /\ LockFrame(Op("begin", NoEntry, <<>>, inflight[i].kind))
  /\ UNCHANGED saving

\* the command is done and the lock released; the promise of invoke settles
EndMutation(i) ==
  /\ i \in 1..Len(inflight)
  /\ inflight[i].step = "running"
  /\ inflight' = RemoveAt(inflight, i)
  /\ saving' = IF inflight[i].kind = "save_skill_entry" THEN FALSE ELSE saving
  /\ LockFrame(Op("end", NoEntry, <<>>, inflight[i].kind))

NextLock ==
  \/ \E command \in MutationCommands, path \in SkillDirs : InvokeMutation(command, path)
  \/ \E i \in 1..Len(inflight) : BeginMutation(i)
  \/ \E i \in 1..Len(inflight) : EndMutation(i)

SpecLock == InitLock /\ [][NextLock]_vars

C22_RefreshKeepsEditorState ==
  [][(Ran("refreshDone") /\ open) =>
       /\ dirtyFiles' = dirtyFiles
       /\ \A f \in dirtyFiles : Get(contentByFile', f) = Get(contentByFile, f)
       /\ mode = "create" => entries' = entries
    ]_vars

\* a refresh of the dashboard is pending while the editor of a new skill is
\* open with a dirty SKILL.md
C22_RefreshPendingOverDirtyDraft ==
  /\ open /\ mode = "create"
  /\ SKILL_MD \in dirtyFiles
  /\ \E i \in 1..Len(inflight) : inflight[i].kind = "refresh"

\* no `..` segment, no separator in front, no backslash, no empty segment
WellFormedPath(p) ==
  /\ p # Null /\ p # <<>>
  /\ p[1] # "/"
  /\ \A i \in 1..Len(p) : p[i] # "\\"
  /\ \A i \in 1..Len(Split(p)) : Split(p)[i] # <<>> /\ Split(p)[i] # <<".", ".">>

\* C23: whatever is typed into the New Folder, New Markdown and Rename
\* dialogs, every entry of the editor's tree has a relativePath without a
\* `..` segment, without a separator in front, without a backslash and
\* without an empty segment.
C23_EntryPathsAreWellFormed ==
  \A i \in 1..Len(entries) : WellFormedPath(entries[i].relativePath)

\* a folder has been created from an input that begins with a separator and
\* holds a backslash
C23_CreatedFromUntidyInput ==
  /\ lastOp.kind = "createFolder" /\ lastOp.result = "ok"
  /\ lastOp.raw[1] \in {"/", "\\"}
  /\ Includes(lastOp.raw, <<"\\">>)
  /\ \E i \in 1..Len(entries) : entries[i].relativePath = <<"a", "/", "a">>

(***************************************************************************)
(* The same three handlers on inputs that name a path of the tree: each    *)
(* path of the draft and of the listed skill, and a name that is free at   *)
(* first and taken after the first of two operations.                      *)
(***************************************************************************)
TakenInputs ==
  {SKILL_MD, <<"a">>, <<"a", "/", "a", ".", "m", "d">>, <<"a", ".", "m", "d">>,
   <<"a", "/", "a">>} \cup Strings(2)

InitTaken ==
  /\ rawInput \in TakenInputs
  /\ InitViews
  /\ open = TRUE
  /\ InitInputCreate \/ InitInputEdit
  /\ dirtyFiles = {}
  /\ collapsedDirs = {}
  /\ pendingEntry = NoEntry
  /\ unsavedSwitchOpen = FALSE
  /\ unsavedCloseOpen = FALSE
  /\ loadingFile = FALSE
  /\ saving = FALSE
  /\ inflight = <<>>
  /\ disk = InitDisk
  /\ lastOp = Op("init", NoEntry, <<>>, "")
  /\ overlap = FALSE
  /\ createLog = <<>>
  /\ deleteTarget = NoEntry
  /\ targetToolId = DefaultToolId
  /\ opsLeft = 2

SpecTaken == InitTaken /\ [][NextInput]_vars

\* the path a create request asks for
CreateTarget(kind, raw) ==
  IF kind = "createFolder" THEN normalizeRelativePath(Trim(raw))
  ELSE ensureMarkdownPath(Trim(raw))

\* C24: no two entries of the editor's tree have the same relativePath, and a
\* New Folder or New Markdown request for a path that an entry already has
\* leaves the tree as it is.
C24_NoTwoEntriesShareAPath ==
  /\ [](\A i, j \in 1..Len(entries) :
          i # j => entries[i].relativePath # entries[j].relativePath)
  /\ [][((Ran("createFolder") \/ Ran("createMarkdown"))
           /\ HasPath(entries, CreateTarget(lastOp'.kind, lastOp'.raw))) =>
          entries' = entries
       ]_vars

\* the tree holds a file and a directory of the same path
C24_FileAndDirectoryAtOnePath ==
  \E i, j \in 1..Len(entries) :
    /\ entries[i].relativePath = entries[j].relativePath
    /\ entries[i].isDir /\ ~entries[j].isDir

(***************************************************************************)
(* "Create Skill": the editor open on a new skill, with or without a tool  *)
(* to create it for; the user builds a draft and submits it.               *)
(***************************************************************************)
DraftFolders == {<<"a">>, <<"e", "/", "a">>}
DraftMarkdowns == {<<"b">>, <<"e", "/", "b">>}

InitCreate ==
  /\ InitViews
  /\ open = TRUE /\ mode = "create" /\ editorUiMode = "edit"
  /\ entries = createDefaultEntries
  /\ selectedFile = SKILL_MD
  /\ contentByFile = <<[k |-> SKILL_MD, v |-> DEFAULT_CONTENT]>>
  /\ savedByFile = <<[k |-> SKILL_MD, v |-> DEFAULT_CONTENT]>>
  /\ dirtyFiles = {} /\ collapsedDirs = {}
  /\ pendingEntry = NoEntry /\ deleteTarget = NoEntry
  /\ unsavedSwitchOpen = FALSE /\ unsavedCloseOpen = FALSE
  /\ loadingFile = FALSE /\ saving = FALSE
  /\ inflight = <<>> /\ disk = InitDisk
  /\ lastOp = Op("init", NoEntry, <<>>, "")
  /\ overlap = FALSE /\ createLog = <<>> /\ rawInput = <<>>
  /\ targetToolId \in {"", DefaultToolId}
  /\ opsLeft = MaxOps

NextCreate ==
  \/ \E v \in Texts : Edit(v)
  \/ \E raw \in DraftFolders : createFolder(raw)
  \/ \E raw \in DraftMarkdowns : createMarkdownEntry(raw)
  \/ submit
  \/ \E i \in 1..Len(inflight), ok \in BOOLEAN : CreateStepDone(i, ok)
  \/ \E i \in 1..Len(inflight), ok \in BOOLEAN : RefreshDone(i, ok)

SpecCreate == InitCreate /\ [][NextCreate]_vars

CreateTasks == {i \in 1..Len(inflight) : inflight[i].kind = "create"}

\* the commands "Create Skill" has issued so far: those answered, and the one pending
IssuedByCreate ==
  IF CreateTasks = {} THEN createLog
  ELSE LET t == inflight[CHOOSE i \in CreateTasks : TRUE]
       IN Append(createLog, CreateCalls(t.c)[t.step])

\* save_skill_file first and once, every directory before any extra file,
\* every directory after its parent, nothing twice
InCreateOrder(calls) ==
  /\ calls # <<>> => calls[1].cmd = "save_skill_file"
  /\ \A k \in 2..Len(calls) : calls[k].cmd # "save_skill_file"
  /\ \A j, k \in 1..Len(calls) :
       /\ (j < k /\ calls[j].cmd = "save_skill_entry") => calls[k].cmd = "save_skill_entry"
       /\ j # k => calls[j] # calls[k]
  /\ \A k \in 1..Len(calls) :
       (calls[k].cmd = "create_skill_dir" /\ normalizeParent(calls[k].path) # <<>>) =>
         \E j \in 1..(k - 1) :
           calls[j] = [cmd |-> "create_skill_dir", path |-> normalizeParent(calls[k].path)]

\* every directory and every file but SKILL.md of the draft has had its command
CoversDraft(calls, draft) ==
  \A i \in 1..Len(draft) :
    \/ draft[i].relativePath = SKILL_MD /\ ~draft[i].isDir
    \/ \E k \in 1..Len(calls) :
         calls[k] = [cmd |-> IF draft[i].isDir THEN "create_skill_dir" ELSE "save_skill_entry",
                     path |-> draft[i].relativePath]

\* C25: the commands of "Create Skill" are issued in order, save_skill_file
\* first, then create_skill_dir for every directory with parents before
\* children, then save_skill_entry for every other file; when a command
\* fails no further command is issued, the failure is reported, the editor
\* stays open and no refresh of the dashboard is started; the editor closes
\* and the dashboard is refreshed only when every command of the draft has
\* succeeded; without a tool or with a blank SKILL.md nothing is issued.
C25_CreateIsOrderedAndStopsAtFailure ==
  /\ [](InCreateOrder(IssuedByCreate) /\ Cardinality(CreateTasks) <= 1)
  /\ [][/\ (Ran("createStepDone") /\ lastOp'.result = "backendFail") =>
            /\ inflight' = RemoveAt(inflight, CHOOSE i \in CreateTasks : TRUE)
            /\ createLog' = createLog
            /\ open' = open
            /\ ~saving'
        /\ (Ran("createStepDone") /\ open /\ ~open') =>
            /\ lastOp'.result = "ok"
            /\ CoversDraft(createLog', inflight[CHOOSE i \in CreateTasks : TRUE].c.entries)
            /\ \E i \in 1..Len(inflight') : inflight'[i].kind = "refresh"
        /\ ((Ran("submit") \/ Ran("closeSave")) /\ mode = "create"
              /\ (targetToolId = "" \/ IsBlank(OrEmpty(Get(contentByFile, SKILL_MD))))) =>
            /\ lastOp'.result \in {"noTool", "blank"}
            /\ inflight' = inflight
            /\ open' = open
       ]_vars

\* the command for a directory inside another one has failed after the
\* commands for SKILL.md and for the parent had succeeded, and the editor is open
C25_FailedAtTheChildDirectory ==
  /\ lastOp.kind = "createStepDone" /\ lastOp.result = "backendFail"
  /\ lastOp.entry.relativePath = <<"e", "/", "a">>
  /\ createLog = <<[cmd |-> "save_skill_file", path |-> SKILL_MD],
                   [cmd |-> "create_skill_dir", path |-> <<"e">>]>>
  /\ open /\ inflight = <<>>

\* C26: in edit mode every dirty file is the selected file, so that Save
\* File, which writes the selected file only, covers every unsaved change.
C26_OnlyTheSelectedFileIsDirty ==
  (open /\ mode = "edit") => dirtyFiles \subseteq {selectedFile}

\* in edit mode a file that is not the selected one is dirty
C26_DirtyFileNotSelected ==
  /\ open /\ mode = "edit"
  /\ \E f \in dirtyFiles : f # selectedFile

\* how many times the entry occurs in the list
Occurrences(list, e) == Len(SelectSeq(list, LAMBDA x : x = e))

\* C27: the list sortEntries returns is a permutation of the list it was
\* given: every entry occurs in it as many times as in the input, also when
\* the parent directory of an entry is not an entry of the input.
C27_SortedListIsAPermutation ==
  lastOp.kind = "sort" =>
    \A e \in SortEntry : Occurrences(entries, e) = Occurrences(lastOp.raw, e)

\* a list with a file whose parent directory is not in the list has been sorted
C27_SortedWithoutTheParent ==
  /\ lastOp.kind = "sort"
  /\ Occurrences(lastOp.raw, Entry(<<"a", "/", "b">>, FALSE)) = 1
  /\ \A i \in 1..Len(lastOp.raw) : lastOp.raw[i].relativePath # <<"a">>

(***************************************************************************)
(* App (src/unnamed/part_003) and useDashboard (src/src/hooks/             *)
(* use-dashboard.ts): the dashboard data, the tools, "Sync to tools".      *)
(* A command in flight is a record of `inflight`; the commands answer in   *)
(* any order.                                                              *)
(***************************************************************************)
MaxRefreshes == 4   \* get_dashboard_data calls per behaviour of SpecDash

Tool(id, name, enabled) == [id |-> id, name |-> name, enabled |-> enabled]

\* data.tools as get_dashboard_data lists them
ToolList ==
  << Tool(<<"a">>, <<"A", "x">>, TRUE), Tool(<<"b">>, <<"y">>, TRUE),
     Tool(<<"c">>, <<"x", "y">>, TRUE), Tool(<<"d">>, <<"d">>, TRUE),
     Tool(<<"e">>, <<"E", "x">>, FALSE) >>

ToolIds(list) == [i \in 1..Len(list) |-> list[i].id]

Elements(seq) == {seq[i] : i \in 1..Len(seq)}

\* the skills of the list whose "Sync" button is pressed
SyncSkills ==
  { [path |-> <<"s">>, enabledFor |-> {<<"a">>}],
    [path |-> <<"n">>, enabledFor |-> {<<"a">>, <<"c">>}] }

AppFrame(op) ==
  /\ lastOp' = op
  /\ UNCHANGED <<open, mode, editorUiMode, entries, selectedFile, contentByFile,
                 savedByFile, dirtyFiles, collapsedDirs, pendingEntry, unsavedSwitchOpen,
                 unsavedCloseOpen, loadingFile, saving, disk, overlap, createLog,
                 deleteTarget, rawInput, skills, groupedSkills, market, root,
                 targetToolId>>

\* what a run of runSync has counted so far
SyncRun(targets, i, success, failed) ==
  [targets |-> targets, i |-> i, success |-> success, failed |-> failed]

NoRun == SyncRun(<<>>, 0, 0, <<>>)

\* refresh() up to its await: setLoading(true), invoke("get_dashboard_data")
Refreshing(a) == [a EXCEPT !.loading = TRUE, !.started = a.started + 1]

DashboardCall(a, caller, run) ==
  [kind |-> "getDashboardData", id |-> a.started + 1, caller |-> caller, run |-> run]

\* refresh() after its await: setData(next) unless the call failed, and
\* setLoading(false) in the finally block
Refreshed(a, call, ok) ==
  [a EXCEPT !.data = IF ok THEN call.id ELSE @, !.loading = FALSE,
            !.okIds = IF ok THEN @ \cup {call.id} ELSE @]

eligibleSyncTools ==
  IF app.data = 0 \/ app.syncSkill = NoSyncSkill THEN <<>>
  ELSE SelectSeq(app.tools,
                 LAMBDA tool : tool.enabled /\ tool.id \notin app.syncSkill.enabledFor)

\* the "Sync" button of a skill card; the dialog is modal
openSyncDialog(skill) ==
  /\ opsLeft > 0
  /\ app.data # 0
  /\ ~app.syncDialogOpen
  /\ app' = [app EXCEPT !.syncSkill = skill, !.syncTargetIds = <<>>,
                        !.syncDialogOpen = TRUE]
  /\ opsLeft' = opsLeft - 1
  /\ UNCHANGED inflight
  /\ AppFrame(Op("openSyncDialog", NoEntry, skill.path, "ok"))

\* a checkbox of the target list, which is shown while no run is in progress
toggleSyncTarget(toolId) ==
  /\ opsLeft > 0
  /\ app.syncDialogOpen /\ ~app.syncing
  /\ toolId \in Elements(ToolIds(eligibleSyncTools))
  /\ LET checked == toolId \notin Elements(app.syncTargetIds)
         prev == app.syncTargetIds
     IN app' = [app EXCEPT !.syncTargetIds =
                  IF checked THEN Append(prev, toolId)
                  ELSE SelectSeq(prev, LAMBDA id : id # toolId)]
  /\ opsLeft' = opsLeft - 1
  /\ UNCHANGED inflight
  /\ AppFrame(Op("toggleSyncTarget", NoEntry, toolId, "ok"))

\* "Select all" (all = TRUE) and "Clear" above the target list
setSyncTargets(all) ==
  /\ opsLeft > 0
  /\ app.syncDialogOpen /\ ~app.syncing
  /\ eligibleSyncTools # <<>>
  /\ app' = [app EXCEPT !.syncTargetIds =
               IF all THEN ToolIds(eligibleSyncTools) ELSE <<>>]
  /\ opsLeft' = opsLeft - 1
  /\ UNCHANGED inflight
  /\ AppFrame(Op("setSyncTargets", NoEntry, <<>>, IF all THEN "all" ELSE "none"))

\* onOpenChange of the sync Dialog: Escape, a click outside, the close button
onSyncOpenChange(o) ==
  /\ opsLeft > 0
  /\ app.syncDialogOpen
  /\ app' = IF app.syncing THEN app
            ELSE IF o THEN [app EXCEPT !.syncDialogOpen = TRUE]
            ELSE [app EXCEPT !.syncDialogOpen = FALSE, !.syncSkill = NoSyncSkill,
                             !.syncTargetIds = <<>>]
  /\ opsLeft' = opsLeft - 1
  /\ UNCHANGED inflight
  /\ AppFrame(Op("onSyncOpenChange", NoEntry, <<>>,
                 IF app.syncing THEN "ignored" ELSE "ok"))

\* "Cancel" in the footer, disabled={syncing}
cancelSync ==
  /\ opsLeft > 0
  /\ app.syncDialogOpen /\ ~app.syncing
  /\ app' = [app EXCEPT !.syncDialogOpen = FALSE, !.syncSkill = NoSyncSkill,
                        !.syncTargetIds = <<>>]
  /\ opsLeft' = opsLeft - 1
  /\ UNCHANGED inflight
  /\ AppFrame(Op("cancelSync", NoEntry, <<>>, "ok"))

\* the targets of a run: the tools of the list whose id is selected
SyncTargets ==
  SelectSeq(app.tools, LAMBDA tool : tool.id \in Elements(app.syncTargetIds))

CopyCall(run) ==
  [kind |-> "copySkillToTool", id |-> 0, caller |-> "runSync", run |-> run]

\* "Start Sync", disabled={syncing || syncTargetIds.length === 0}: runSync up
\* to the first await
runSync ==
  /\ opsLeft > 0
  /\ app.syncDialogOpen /\ ~app.syncing
  /\ app.syncTargetIds # <<>>
  /\ opsLeft' = opsLeft - 1
  /\ IF app.syncSkill = NoSyncSkill \/ app.data = 0
     THEN /\ UNCHANGED <<app, inflight>>
          /\ AppFrame(Op("runSync", NoEntry, <<>>, "ignored"))
     ELSE IF SyncTargets = <<>>
     THEN /\ UNCHANGED <<app, inflight>>
          /\ AppFrame(Op("runSync", NoEntry, <<>>, "noTargets"))
     ELSE /\ app' = [app EXCEPT !.syncing = TRUE,
                                !.syncLog = <<SyncTargets[1].id>>]
          /\ inflight' = Append(inflight, CopyCall(SyncRun(SyncTargets, 1, 0, <<>>)))
          /\ AppFrame(Op("runSync", NoEntry, <<>>, "started"))

\* the variant of the loop that leaves at the first failed copy
CopyAnswered_StopsAtFailure(i, ok) ==
  /\ i \in 1..Len(inflight)
  /\ inflight[i].kind = "copySkillToTool"
  /\ LET r == inflight[i].run
         target == r.targets[r.i]
         run == SyncRun(r.targets, r.i + 1,
                        IF ok THEN r.success + 1 ELSE r.success,
                        IF ok THEN r.failed ELSE Append(r.failed, target.name))
     IN IF ok /\ r.i < Len(r.targets)
        THEN /\ app' = [app EXCEPT !.syncLog = Append(@, r.targets[r.i + 1].id)]
             /\ inflight' = [inflight EXCEPT ![i] = CopyCall(run)]
        ELSE /\ app' = Refreshing(app)
             /\ inflight' = [inflight EXCEPT ![i] = DashboardCall(app, "runSync", run)]
  /\ UNCHANGED opsLeft
  /\ AppFrame(Op("copyAnswered", NoEntry, <<>>, IF ok THEN "ok" ELSE "backendFail"))

\* copy_skill_to_tool answers: count it, then the next target, or refresh()
\* after the last one
CopyAnswered(i, ok) ==
  /\ i \in 1..Len(inflight)
  /\ inflight[i].kind = "copySkillToTool"
  /\ LET r == inflight[i].run
         target == r.targets[r.i]
         run == SyncRun(r.targets, r.i + 1,
                        IF ok THEN r.success + 1 ELSE r.success,
                        IF ok THEN r.failed ELSE Append(r.failed, target.name))
     IN IF r.i < Len(r.targets)
        THEN /\ app' = [app EXCEPT !.syncLog = Append(@, r.targets[r.i + 1].id)]
             /\ inflight' = [inflight EXCEPT ![i] = CopyCall(run)]
        ELSE /\ app' = Refreshing(app)
             /\ inflight' = [inflight EXCEPT ![i] = DashboardCall(app, "runSync", run)]
  /\ UNCHANGED opsLeft
  /\ AppFrame(Op("copyAnswered", NoEntry, <<>>, IF ok THEN "ok" ELSE "backendFail"))

\* the refresh of runSync answers: the toast, the dialog closes, and the
\* finally block clears `syncing`
SyncRefreshAnswered(i, ok) ==
  /\ i \in 1..Len(inflight)
  /\ inflight[i].kind = "getDashboardData"
  /\ inflight[i].caller = "runSync"
  /\ LET call == inflight[i]
     IN app' = [Refreshed(app, call, ok) EXCEPT
                  !.syncDialogOpen = FALSE, !.syncSkill = NoSyncSkill,
                  !.syncTargetIds = <<>>, !.syncing = FALSE,
                  !.syncDone = [success |-> call.run.success,
                                failed |-> call.run.failed]]
  /\ inflight' = RemoveAt(inflight, i)
  /\ UNCHANGED opsLeft
  /\ AppFrame(Op("runSyncDone", NoEntry, <<>>,
                 IF inflight[i].run.failed = <<>> THEN "success" ELSE "error"))

\* the dashboard is loaded and shows the tools
InitSync ==
  /\ InitEditor
  /\ skills = <<>>
  /\ groupedSkills = <<>>
  /\ market = InitMarket
  /\ root = InitRoot
  /\ app = [InitApp EXCEPT !.data = 1, !.loading = FALSE, !.started = 1,
                           !.tools = ToolList, !.okIds = {1}]
  /\ opsLeft = MaxOps
  /\ rawInput = <<>>

NextSync ==
  \/ \E skill \in SyncSkills : openSyncDialog(skill)
  \/ \E toolId \in Elements(ToolIds(ToolList)) : toggleSyncTarget(toolId)
  \/ \E all \in BOOLEAN : setSyncTargets(all)
  \/ \E o \in BOOLEAN : onSyncOpenChange(o)
  \/ cancelSync
  \/ runSync
  \/ \E i \in 1..Len(inflight), ok \in BOOLEAN : CopyAnswered(i, ok)
  \/ \E i \in 1..Len(inflight), ok \in BOOLEAN : SyncRefreshAnswered(i, ok)

SpecSync == InitSync /\ [][NextSync]_vars

CopiesInFlight == {i \in 1..Len(inflight) : inflight[i].kind = "copySkillToTool"}

IsPrefix(s, t) == Len(s) <= Len(t) /\ SubSeq(t, 1, Len(s)) = s

\* a get_dashboard_data call of runSync is answered in this step
SyncRefreshCompletes ==
  /\ \E i \in 1..Len(inflight) :
        /\ inflight[i].kind = "getDashboardData" /\ inflight[i].caller = "runSync"
        /\ inflight' = RemoveAt(inflight, i)
  /\ ~app'.loading

\* C28: a run of "Sync to tools" copies to the selected targets one at a time
\* and in the order of the tool list, whatever the order they were ticked in
\* and whether or not a copy fails; while `syncing` is true the dialog stays
\* open, the selection stays as it is and no second run starts; the run ends
\* only when its get_dashboard_data call has answered, and then every selected
\* target has been attempted exactly once, the successes and the reported
\* failures add up to the number of selected targets, the dialog is closed and
\* `syncing` is false.
C28_SyncAttemptsEveryTargetOnceInOrder ==
  /\ [](/\ Cardinality(CopiesInFlight) <= 1
        /\ app.syncing =>
             /\ app.syncDialogOpen
             /\ app.syncLog # <<>>
             /\ IsPrefix(app.syncLog, ToolIds(SyncTargets))
             /\ (CopiesInFlight # {} <=> inflight # <<>> /\ ~app.loading))
  /\ [][/\ (app.syncing /\ app'.syncing) =>
             /\ app'.syncTargetIds = app.syncTargetIds
             /\ app'.syncSkill = app.syncSkill
             /\ IsPrefix(app.syncLog, app'.syncLog)
             /\ Len(app'.syncLog) <= Len(app.syncLog) + 1
             /\ (Ran("onSyncOpenChange") => lastOp'.result = "ignored")
        /\ (app.syncing /\ ~app'.syncing) =>
             /\ SyncRefreshCompletes
             /\ app.syncLog = ToolIds(SyncTargets)
             /\ Len(app.syncLog) = Len(app.syncTargetIds)
             /\ app'.syncDone.success + Len(app'.syncDone.failed)
                  = Len(app.syncTargetIds)
             /\ ~app'.syncDialogOpen
        /\ (~app.syncing /\ app'.syncing) => Ran("runSync")]_vars

\* a run has ended in which the first copy failed and a later one succeeded,
\* for targets ticked against the order of the tool list
C28_FirstTargetFailedLaterOneCopied ==
  /\ lastOp.kind = "runSyncDone"
  /\ app.syncLog = <<(<<"b">>), (<<"d">>)>>
  /\ app.syncDone.failed = << ToolList[2].name >>
  /\ app.syncDone.success = 1
  /\ ~app.syncing /\ ~app.syncDialogOpen

(***************************************************************************)
(* ToolsView (src/unnamed/part_007): the search filter and drag-and-drop    *)
(* reordering of the tool list.                                            *)
(***************************************************************************)
\* what is typed into "Search tools"
ToolQueries ==
  { <<" ">>, <<"x">>, <<" ", "X">>, <<"y">>, <<"d">>, <<"a">>, <<"q">> }

\* every order of the tools of a list
Orders(list) ==
  LET n == Len(list)
      Bijections == {f \in [1..n -> 1..n] : \A i, j \in 1..n : f[i] = f[j] => i = j}
  IN {[i \in 1..n |-> list[f[i]]] : f \in Bijections}

isSearching == Trim(app.query) # <<>>

filtered ==
  IF ~isSearching THEN app.tools
  ELSE LET q == ToLowerCase(Trim(app.query))
       IN SelectSeq(app.tools,
                    LAMBDA tool : \/ Includes(ToLowerCase(tool.name), q)
                                  \/ Includes(ToLowerCase(tool.id), q))

\* Array.prototype.findIndex on ids, counted from 1; 0 stands for -1
findIndex(list, id) ==
  IF \E i \in 1..Len(list) : list[i].id = id
  THEN CHOOSE i \in 1..Len(list) :
         /\ list[i].id = id
         /\ \A j \in 1..(i - 1) : list[j].id # id
  ELSE 0

\* arrayMove of @dnd-kit/sortable: splice the item out at `from`, splice it
\* in at `to`
arrayMove(array, from, to) ==
  LET rest == RemoveAt(array, from)
  IN SubSeq(rest, 1, to - 1) \o <<array[from]>> \o SubSeq(rest, to, Len(rest))

\* the loop over `tools` that refills the filtered positions from `reordered`
RECURSIVE Refill(_, _, _)
Refill(tools, filteredIds, reordered) ==
  IF tools = <<>> THEN <<>>
  ELSE IF Head(tools).id \in filteredIds
  THEN <<Head(reordered)>> \o Refill(Tail(tools), filteredIds, Tail(reordered))
  ELSE <<Head(tools)>> \o Refill(Tail(tools), filteredIds, reordered)

ReorderCall(toolOrder) ==
  [kind |-> "reorderTools", id |-> 0, caller |-> "onReorder",
   run |-> SyncRun(toolOrder, 0, 0, <<>>)]

\* the search box of the header
setSearch(q) ==
  /\ opsLeft > 0
  /\ q # app.query
  /\ app' = [app EXCEPT !.query = q]
  /\ opsLeft' = opsLeft - 1
  /\ UNCHANGED inflight
  /\ AppFrame(Op("setSearch", NoEntry, q, "ok"))

\* the variant of handleDragEnd without the isSearching branch
handleDragEnd_SubmitsTheFilteredList(active, over) ==
  /\ opsLeft > 0
  /\ opsLeft' = opsLeft - 1
  /\ LET oldIndex == findIndex(filtered, active)
         newIndex == findIndex(filtered, over)
     IN IF over = Null \/ active = over \/ oldIndex = 0 \/ newIndex = 0
        THEN /\ UNCHANGED <<app, inflight>>
             /\ AppFrame(Op("handleDragEnd", NoEntry, <<active, over>>, "ignored"))
        ELSE LET toolOrder == ToolIds(arrayMove(filtered, oldIndex, newIndex))
             IN /\ app' = [app EXCEPT !.toolOrder = toolOrder]
                /\ inflight' = Append(inflight, ReorderCall(toolOrder))
                /\ AppFrame(Op("handleDragEnd", NoEntry, <<active, over>>, "submitted"))

\* onDragEnd of the DndContext: `active` was dropped on `over` (Null: on
\* nothing); onReorder invokes reorder_tools
handleDragEnd(active, over) ==
  /\ opsLeft > 0
  /\ opsLeft' = opsLeft - 1
  /\ LET oldIndex == findIndex(filtered, active)
         newIndex == findIndex(filtered, over)
     IN IF over = Null \/ active = over \/ oldIndex = 0 \/ newIndex = 0
        THEN /\ UNCHANGED <<app, inflight>>
             /\ AppFrame(Op("handleDragEnd", NoEntry, <<active, over>>, "ignored"))
        ELSE LET reordered == arrayMove(filtered, oldIndex, newIndex)
                 full == Refill(app.tools, Elements(ToolIds(filtered)), reordered)
                 toolOrder == IF isSearching THEN ToolIds(full) ELSE ToolIds(reordered)
             IN /\ app' = [app EXCEPT !.toolOrder = toolOrder]
                /\ inflight' = Append(inflight, ReorderCall(toolOrder))
                /\ AppFrame(Op("handleDragEnd", NoEntry, <<active, over>>, "submitted"))

\* reorder_tools answers: refresh(), or the toast of the catch block
ReorderAnswered(i, ok) ==
  /\ i \in 1..Len(inflight)
  /\ inflight[i].kind = "reorderTools"
  /\ IF ok
     THEN /\ app' = Refreshing(app)
          /\ inflight' = [inflight EXCEPT ![i] = DashboardCall(app, "onReorder", NoRun)]
     ELSE /\ inflight' = RemoveAt(inflight, i)
          /\ UNCHANGED app
  /\ UNCHANGED opsLeft
  /\ AppFrame(Op("reorderAnswered", NoEntry, <<>>, IF ok THEN "ok" ELSE "backendFail"))

\* get_dashboard_data answers a refresh() that nothing else waits for
DashboardAnswered(i, ok) ==
  /\ i \in 1..Len(inflight)
  /\ inflight[i].kind = "getDashboardData"
  /\ inflight[i].caller # "runSync"
  /\ app' = Refreshed(app, inflight[i], ok)
  /\ inflight' = RemoveAt(inflight, i)
  /\ UNCHANGED opsLeft
  /\ AppFrame(Op("dashboardAnswered", NoEntry, <<>>, IF ok THEN "ok" ELSE "backendFail"))

\* the Tools view shows the tools in any of their orders
InitTools ==
  /\ InitEditor
  /\ skills = <<>>
  /\ groupedSkills = <<>>
  /\ market = InitMarket
  /\ root = InitRoot
  /\ \E order \in Orders(ToolList) :
        app = [InitApp EXCEPT !.data = 1, !.loading = FALSE, !.started = 1,
                              !.tools = order, !.okIds = {1}]
  /\ opsLeft = 2
  /\ rawInput = <<>>

NextTools ==
  \/ \E q \in ToolQueries : setSearch(q)
  \/ \E active \in Elements(ToolIds(ToolList)),
        over \in Elements(ToolIds(ToolList)) \cup {Null} : handleDragEnd(active, over)
  \/ \E i \in 1..Len(inflight), ok \in BOOLEAN : ReorderAnswered(i, ok)
  \/ \E i \in 1..Len(inflight), ok \in BOOLEAN : DashboardAnswered(i, ok)

SpecTools == InitTools /\ [][NextTools]_vars

\* the reorder_tools calls in flight
ReorderCalls == {i \in 1..Len(inflight) : inflight[i].kind = "reorderTools"}

Without(seq, e) == SelectSeq(seq, LAMBDA x : x # e)

\* C29: a drop that is not ignored submits exactly one order to reorder_tools,
\* and that order holds every tool id of the list once; the tools the filter
\* hides stay at their positions; the positions of the visible tools hold the
\* visible tools, with the dragged tool at the place (among the visible ones)
\* of the tool it was dropped on and the other visible tools in the order they
\* had.  An ignored drop submits nothing.
C29_ReorderSubmitsAPermutation ==
  [][Ran("handleDragEnd") =>
       LET ids == ToolIds(app.tools)
           visible == ToolIds(filtered)
           order == app'.toolOrder
           active == lastOp'.raw[1]
           over == lastOp'.raw[2]
       IN IF lastOp'.result = "submitted"
          THEN /\ inflight' = Append(inflight, ReorderCall(order))
               /\ Len(order) = Len(ids)
               /\ \A id \in Elements(ids) : Occurrences(order, id) = 1
               /\ \A i \in 1..Len(ids) :
                    ids[i] \notin Elements(visible) => order[i] = ids[i]
               /\ LET shown == SelectSeq(order, LAMBDA id : id \in Elements(visible))
                  IN /\ Without(shown, active) = Without(visible, active)
                     /\ \E k \in 1..Len(visible) : visible[k] = over
                     /\ \A k \in 1..Len(visible) : visible[k] = over => shown[k] = active
          ELSE /\ inflight' = inflight
               /\ app' = app]_vars

\* with the filter "x" showing a, c and e of the list a b c d e, e was dropped
\* on a: b and d stayed where they were
C29_HiddenToolsKeptTheirPlaces ==
  /\ lastOp.kind = "handleDragEnd" /\ lastOp.result = "submitted"
  /\ ToLowerCase(Trim(app.query)) = <<"x">>
  /\ ToolIds(app.tools) = ToolIds(ToolList)
  /\ app.toolOrder = << (<<"e">>), (<<"b">>), (<<"a">>), (<<"d">>), (<<"c">>) >>

(***************************************************************************)
(* useDashboard.refresh (src/src/hooks/use-dashboard.ts) called again       *)
(* before an earlier call has answered: the mount effect, the Refresh       *)
(* button, Cmd/Ctrl+Shift+R.                                               *)
(***************************************************************************)
\* refresh(): the mount effect first, then the button or the shortcut, which
\* are never disabled
DashboardRefresh ==
  /\ app.started < MaxRefreshes
  /\ app' = Refreshing(app)
  /\ inflight' = Append(inflight, DashboardCall(app, "refresh", NoRun))
  /\ UNCHANGED opsLeft
  /\ AppFrame(Op("refresh", NoEntry, <<>>, "started"))

InitDash ==
  /\ InitEditor
  /\ InitViews
  /\ opsLeft = MaxOps
  /\ rawInput = <<>>

NextDash ==
  \/ DashboardRefresh
  \/ \E i \in 1..Len(inflight), ok \in BOOLEAN : DashboardAnswered(i, ok)

SpecDash == InitDash /\ [][NextDash]_vars

\* the ids of the get_dashboard_data calls in flight
DashboardCalls ==
  {inflight[i].id : i \in {j \in 1..Len(inflight) : inflight[j].kind = "getDashboardData"}}

Max(S) == CHOOSE m \in S : \A n \in S : n <= m

\* C30: from the mount effect on, `loading` is true exactly while a
\* get_dashboard_data call is in flight; a failed call leaves `data` as it
\* was; and when no call is in flight, `data` is the answer to the most
\* recently started call among those that succeeded.
C30_OverlappingRefreshesAreConsistent ==
  /\ [](app.started > 0 =>
          /\ app.loading <=> DashboardCalls # {}
          /\ DashboardCalls = {} => app.data = Max(app.okIds \cup {0}))
  /\ [][(Ran("dashboardAnswered") /\ lastOp'.result = "backendFail")
          => app'.data = app.data]_vars

\* every call has answered, and `data` is the answer to the first call
\* although the second one succeeded too
C30_OlderAnswerArrivedLast ==
  /\ DashboardCalls = {}
  /\ app.okIds = {1, 2}
  /\ app.data = 1
  /\ ~app.loading

====
